---- MODULE Spec2Model ----
(***************************************************************************)
(* MQTTWatcher: the per-message watcher pipeline (Watcher.ts), the         *)
(* edge/cooldown suppression core, the legacy stateful path with its       *)
(* warning and reset timers, the cross-watcher GlobalEventStore and the    *)
(* dependency gate (EventUtils.ts), the notification fan-out               *)
(* (MessageService.ts), the expression tokenizer and the MQTT client       *)
(* lifecycle of a watcher.                                                 *)
(*                                                                         *)
(* Time is in whole seconds (Date.now() / 1000).  A string the code takes  *)
(* apart (a subject or dependency path, an "HH:MM" time) is a sequence of  *)
(* one-character strings; a string the code only compares or concatenates  *)
(* is a TLA+ string.                                                       *)
(***************************************************************************)
EXTENDS Integers, Sequences, FiniteSets, TLC

VARIABLES
    cfg,            \* the loaded configuration (config.watchList), fixed at startup
    now,            \* the clock, epoch seconds
    store,          \* GlobalEventStore.data: <<watchId, subject>> -> value
    eventStatus,    \* per watcher: Watcher.eventStatus (statusKey -> EventStatus)
    conditionState, \* per watcher: Watcher.conditionState (key -> ConditionState)
    timers,         \* the pending setTimeout callbacks of the event loop
    nextTimer,      \* the next Timeout handle setTimeout returns
    sent,           \* history: every MessageService.sendNotifications call
    evlog,          \* history: per message and event, how far the pipeline got;
                    \* and every timer callback run
    clog,           \* history: per message, event and condition, the evaluation
    nmsg,           \* messages delivered so far
    ntick,          \* clock advances so far
    outbox,         \* history: every MessageService.sendNotification call, and
                    \* what became of the send it started
    process,        \* "running", or "exited" once the node process has ended
    tk,             \* the expression being evaluated: EventUtils.tokenize's locals
    net,            \* per watcher: the MQTT clients run() created, the pending
                    \* run() timers, and the history of the transport
    msec,           \* the clock, milliseconds within the second
    tpl,            \* the template being interpolated: the locals of
                    \* EventUtils.interpolate and resolvePlaceholder
    job             \* the runs of the "message" handler that have begun and
                    \* not returned, each with its position in this.events

vars == <<cfg, now, store, eventStatus, conditionState, timers, nextTimer,
          sent, evlog, clog, nmsg, ntick, outbox, process, tk, net, msec, tpl, job>>

(***************************************************************************)
(* Bounds of the model.                                                    *)
(***************************************************************************)
MaxMsgs == 4
MaxTicks == 2
MaxNum == 100
MaxIter == 20
MaxFailures == 2

(***************************************************************************)
(* Strings the code takes apart, as sequences of characters.               *)
(***************************************************************************)
RECURSIVE SplitFrom(_, _, _, _)
\* the pieces of chars[i..] between separators, cur being the piece so far
SplitFrom(chars, sep, i, cur) ==
    IF i > Len(chars) THEN <<cur>>
    ELSE IF chars[i] = sep THEN <<cur>> \o SplitFrom(chars, sep, i + 1, <<>>)
    ELSE SplitFrom(chars, sep, i + 1, Append(cur, chars[i]))

\* String.prototype.split(sep)
Split(chars, sep) == SplitFrom(chars, sep, 1, <<>>)

RECURSIVE Text(_)
\* the string a sequence of characters spells
Text(chars) == IF chars = <<>> THEN "" ELSE Head(chars) \o Text(Tail(chars))

DigitValue(c) ==
    CASE c = "0" -> 0 [] c = "1" -> 1 [] c = "2" -> 2 [] c = "3" -> 3
      [] c = "4" -> 4 [] c = "5" -> 5 [] c = "6" -> 6 [] c = "7" -> 7
      [] c = "8" -> 8 [] c = "9" -> 9 [] OTHER -> -1

RECURSIVE DigitsValue(_, _)
\* Number of a run of decimal digits (-1: not a number)
DigitsValue(chars, acc) ==
    IF chars = <<>> THEN acc
    ELSE IF DigitValue(Head(chars)) < 0 THEN -1
    ELSE DigitsValue(Tail(chars), 10 * acc + DigitValue(Head(chars)))

RECURSIVE Trim(_)
\* String.prototype.trim
Trim(chars) ==
    IF chars # <<>> /\ Head(chars) = " " THEN Trim(Tail(chars))
    ELSE IF chars # <<>> /\ chars[Len(chars)] = " " THEN Trim(SubSeq(chars, 1, Len(chars) - 1))
    ELSE chars

\* t.slice(a, -1)
Inner(t, a) == SubSeq(t, a + 1, Len(t) - 1)

\* 10 to the power d, d in 0..3
Pow10(d) == CASE d = 0 -> 1 [] d = 1 -> 10 [] d = 2 -> 100 [] OTHER -> 1000

RECURSIVE Digits(_)
\* the decimal digits of n >= 0
Digits(n) == IF n < 10 THEN <<ToString(n)>> ELSE Append(Digits(n \div 10), ToString(n % 10))

RECURSIVE PadDigits(_, _)
\* the last d decimal digits of f, leading zeros kept
PadDigits(f, d) == IF d = 0 THEN <<>> ELSE Append(PadDigits(f \div 10, d - 1), ToString(f % 10))

RECURSIVE StripZeros(_)
\* a fraction without its trailing zeros
StripZeros(ds) ==
    IF ds # <<>> /\ ds[Len(ds)] = "0" THEN StripZeros(SubSeq(ds, 1, Len(ds) - 1)) ELSE ds

\* String(x) of the number m / 1000, m >= 0
NumberChars(m) ==
    IF m % 1000 = 0 THEN Digits(m \div 1000)
    ELSE Digits(m \div 1000) \o <<".">> \o StripZeros(PadDigits(m % 1000, 3))

\* Number(s) of a string of digits with at most three fractional digits, in
\* thousandths; "" is 0; -1 is NaN
ParseNumber(chars) ==
    LET t == Trim(chars)
        parts == Split(t, ".")
    IN  IF t = <<>> THEN 0
        ELSE IF Len(parts) = 1
        THEN (IF DigitsValue(t, 0) < 0 THEN -1 ELSE DigitsValue(t, 0) * 1000)
        ELSE IF /\ Len(parts) = 2 /\ Len(parts[2]) <= 3
                /\ parts[1] \o parts[2] # <<>>
                /\ DigitsValue(parts[1], 0) >= 0 /\ DigitsValue(parts[2], 0) >= 0
        THEN DigitsValue(parts[1], 0) * 1000
             + DigitsValue(parts[2], 0) * Pow10(3 - Len(parts[2]))
        ELSE -1

\* Number.prototype.toFixed(dec) of m / 1000 >= 0 for dec in 0..3: the nearest
\* number with dec fractional digits, the larger one of two equally near.
\* (Exact for every m whose tie is a binary fraction, as .5, .25 and .125 are.)
toFixed(m, dec) ==
    LET n == (m * Pow10(dec) + 500) \div 1000 IN
    IF dec = 0 THEN Digits(n)
    ELSE Digits(n \div Pow10(dec)) \o <<".">> \o PadDigits(n % Pow10(dec), dec)

(***************************************************************************)
(* JavaScript values.  typeof is the field t, except that NaN (typeof      *)
(* "number") has t = "NaN".                                                *)
(***************************************************************************)
NoProps == <<>>
JSVal(t, b, n, s, o) == [t |-> t, b |-> b, n |-> n, s |-> s, o |-> o]
Undef == JSVal("undefined", FALSE, 0, "", NoProps)
Null == JSVal("null", FALSE, 0, "", NoProps)
NaN == JSVal("NaN", FALSE, 0, "", NoProps)
Bool(b) == JSVal("boolean", b, 0, "", NoProps)
Num(n) == JSVal("number", FALSE, n, "", NoProps)
Str(s) == JSVal("string", FALSE, 0, s, NoProps)
Obj(o) == JSVal("object", FALSE, 0, "", o)

\* the number m / 1000 (a number that is not whole)
Milli(m) == JSVal("number", FALSE, m, "e-3", NoProps)

\* String(v)
String(v) ==
    CASE v.t = "undefined" -> "undefined"
      [] v.t = "null" -> "null"
      [] v.t = "NaN" -> "NaN"
      [] v.t = "boolean" -> (IF v.b THEN "true" ELSE "false")
      [] v.t = "number" -> (IF v.s = "e-3" THEN Text(NumberChars(v.n)) ELSE ToString(v.n))
      [] v.t = "string" -> v.s
      [] OTHER -> "[object Object]"

\* Number(s) of a string: "" is 0, a decimal integer is its value, else NaN.
StringToNumber(s) ==
    IF s = "" THEN Num(0)
    ELSE IF \E k \in 0..MaxNum : ToString(k) = s
         THEN Num(CHOOSE k \in 0..MaxNum : ToString(k) = s)
         ELSE NaN

\* Number(v)
Number(v) ==
    CASE v.t = "undefined" -> NaN
      [] v.t = "null" -> Num(0)
      [] v.t = "NaN" -> NaN
      [] v.t = "boolean" -> (IF v.b THEN Num(1) ELSE Num(0))
      [] v.t = "number" -> v
      [] v.t = "string" -> StringToNumber(v.s)
      [] OTHER -> NaN

\* Boolean(v)
Boolean(v) ==
    CASE v.t = "boolean" -> v.b
      [] v.t = "number" -> v.n # 0
      [] v.t = "string" -> v.s # ""
      [] v.t = "object" -> TRUE
      [] OTHER -> FALSE

\* a === b
StrictEquals(a, b) ==
    CASE a.t # b.t -> FALSE
      [] a.t = "NaN" -> FALSE
      [] a.t = "object" -> FALSE
      [] OTHER -> a = b

\* String.prototype.toLowerCase, on the strings that carry upper-case letters
ToLowerCase(s) ==
    CASE s = "TRUE" -> "true"
      [] s = "True" -> "true"
      [] s = "FALSE" -> "false"
      [] s = "False" -> "false"
      [] s = "SRV" -> "srv"
      [] OTHER -> s

(***************************************************************************)
(* EventUtils: normalisation, typed equality, path lookup.                 *)
(***************************************************************************)
\* EventUtils.normalizeValue
normalizeValue(input) ==
    IF input.t = "string"
    THEN LET lc == ToLowerCase(input.s) IN
         IF lc = "true" THEN Bool(TRUE)
         ELSE IF lc = "false" THEN Bool(FALSE)
         ELSE IF Number(input).t # "NaN" THEN Number(input)
         ELSE input
    ELSE input

\* EventUtils.compareValues
compareValues(expected, actual) ==
    CASE expected.t \in {"undefined", "null"} -> TRUE
      [] expected.t = "boolean" -> expected.b = Boolean(actual)
      [] expected.t = "number" -> Number(actual).t = "number" /\ expected.n = Number(actual).n
      [] expected.t = "string" -> expected.s = String(actual)
      [] OTHER -> FALSE

\* !v
Falsy(v) ==
    \/ v.t \in {"undefined", "null", "NaN"}
    \/ v.t = "boolean" /\ ~v.b
    \/ v.t = "number" /\ v.n = 0
    \/ v.t = "string" /\ v.s = ""

RECURSIVE Walk(_, _, _)
\* the loop of getValueByPath over the path's segments
Walk(cur, parts, i) ==
    IF i > Len(parts) THEN cur
    ELSE LET p == Text(parts[i]) IN
         IF cur.t \in {"undefined", "null"} \/ cur.t # "object" \/ p \notin DOMAIN cur.o
         THEN Undef
         ELSE Walk(cur.o[p], parts, i + 1)

\* EventUtils.getValueByPath
getValueByPath(obj, path) ==
    IF path = <<>> \/ Falsy(obj) THEN Undef
    ELSE Walk(obj, Split(path, "."), 1)

(***************************************************************************)
(* Templates and placeholders.  A template is the sequence of its literal  *)
(* stretches and its ${...} placeholders; a placeholder names the store    *)
(* entry, `value`, or the payload path it reads.                           *)
(***************************************************************************)
NoPh == [kind |-> "none", w |-> "", s |-> "", path |-> <<>>]
PhPath(path) == [kind |-> "path", w |-> "", s |-> "", path |-> path]
PhValue == [kind |-> "value", w |-> "", s |-> "", path |-> <<>>]
PhStore(w, s) == [kind |-> "store", w |-> w, s |-> s, path |-> <<>>]
\* a placeholder given by the text between its braces, helper chain included
PhSpec(inside) == [kind |-> "spec", w |-> "", s |-> "", path |-> inside]
Lit(s) == [lit |-> TRUE, s |-> s, ph |-> NoPh]
Ph(ph) == [lit |-> FALSE, s |-> "", ph |-> ph]

\* GlobalEventStore.get
StoreGet(st, w, s) == IF <<w, s>> \in DOMAIN st THEN st[<<w, s>>] ELSE Undef

\* GlobalEventStore.update
StoreUpdate(st, w, s, v) == [k \in DOMAIN st \cup {<<w, s>>} |-> IF k = <<w, s>> THEN v ELSE st[k]]

(***************************************************************************)
(* Helper chains.  A value in a chain is a number (in thousandths), a      *)
(* string (its characters), a boolean, or what the payload held otherwise. *)
(* Numbers are not negative and have at most three fractional digits;      *)
(* the helpers sub, slice, padStart, padEnd and bytes are left out.        *)
(***************************************************************************)
HNum(m) == [t |-> "number", m |-> m, c |-> <<>>, b |-> FALSE, o |-> NoProps]
HStr(c) == [t |-> "string", m |-> 0, c |-> c, b |-> FALSE, o |-> NoProps]
HBool(b) == [t |-> "boolean", m |-> 0, c |-> <<>>, b |-> b, o |-> NoProps]
HNaN == [t |-> "NaN", m |-> 0, c |-> <<>>, b |-> FALSE, o |-> NoProps]

\* the characters of the strings the payloads hold
Chars(s) ==
    CASE s = "" -> <<>>
      [] s = "srv" -> <<"s", "r", "v">>
      [] s = "Db-1" -> <<"D", "b", "-", "1">>
      [] s = "/" -> <<"/">>
      [] s = "/var" -> <<"/", "v", "a", "r">>
      [] s = "91.2" -> <<"9", "1", ".", "2">>

\* a value of the payload, as the helpers take it
Lift(v) ==
    CASE v.t = "number" -> HNum(IF v.s = "e-3" THEN v.n ELSE v.n * 1000)
      [] v.t = "string" -> HStr(Chars(v.s))
      [] OTHER -> [t |-> v.t, m |-> 0, c |-> <<>>, b |-> v.b, o |-> v.o]

\* the value resolvePlaceholder returns
Lower(h) ==
    CASE h.t = "number" -> (IF h.m % 1000 = 0 THEN Num(h.m \div 1000) ELSE Milli(h.m))
      [] h.t = "string" -> Str(Text(h.c))
      [] OTHER -> JSVal(h.t, h.b, 0, "", h.o)

\* String.prototype.toUpperCase and toLowerCase, by character
UpperChar(c) ==
    CASE c = "a" -> "A" [] c = "b" -> "B" [] c = "c" -> "C" [] c = "d" -> "D"
      [] c = "e" -> "E" [] c = "f" -> "F" [] c = "g" -> "G" [] c = "h" -> "H"
      [] c = "i" -> "I" [] c = "j" -> "J" [] c = "k" -> "K" [] c = "l" -> "L"
      [] c = "m" -> "M" [] c = "n" -> "N" [] c = "o" -> "O" [] c = "p" -> "P"
      [] c = "q" -> "Q" [] c = "r" -> "R" [] c = "s" -> "S" [] c = "t" -> "T"
      [] c = "u" -> "U" [] c = "v" -> "V" [] c = "w" -> "W" [] c = "x" -> "X"
      [] c = "y" -> "Y" [] c = "z" -> "Z"
      [] OTHER -> c
LowerChar(c) ==
    CASE c = "A" -> "a" [] c = "B" -> "b" [] c = "C" -> "c" [] c = "D" -> "d"
      [] c = "E" -> "e" [] c = "F" -> "f" [] c = "G" -> "g" [] c = "H" -> "h"
      [] c = "I" -> "i" [] c = "J" -> "j" [] c = "K" -> "k" [] c = "L" -> "l"
      [] c = "M" -> "m" [] c = "N" -> "n" [] c = "O" -> "o" [] c = "P" -> "p"
      [] c = "Q" -> "q" [] c = "R" -> "r" [] c = "S" -> "s" [] c = "T" -> "t"
      [] c = "U" -> "u" [] c = "V" -> "v" [] c = "W" -> "w" [] c = "X" -> "x"
      [] c = "Y" -> "y" [] c = "Z" -> "z"
      [] OTHER -> c
toUpperCase(chars) == [i \in 1..Len(chars) |-> UpperChar(chars[i])]
toLowerCase(chars) == [i \in 1..Len(chars) |-> LowerChar(chars[i])]

\* S of applyHelper: x == null ? "" : String(x)
S(x) ==
    CASE x.t \in {"undefined", "null"} -> <<>>
      [] x.t = "number" -> NumberChars(x.m)
      [] x.t = "string" -> x.c
      [] x.t = "boolean" -> (IF x.b THEN <<"t", "r", "u", "e">> ELSE <<"f", "a", "l", "s", "e">>)
      [] x.t = "NaN" -> <<"N", "a", "N">>
      [] OTHER -> <<"[", "o", "b", "j", "e", "c", "t", " ", "O", "b", "j", "e", "c", "t", "]">>

\* N of applyHelper: Number(x), in thousandths; -1 is NaN
N(x) ==
    CASE x.t = "number" -> x.m
      [] x.t = "string" -> ParseNumber(x.c)
      [] x.t = "boolean" -> (IF x.b THEN 1000 ELSE 0)
      [] x.t = "null" -> 0
      [] OTHER -> -1

\* /^-?\d+(\.\d+)?$/, without the sign
IsDecimal(token) ==
    /\ ParseNumber(token) >= 0
    /\ token # <<>> /\ Trim(token) = token
    /\ \A i \in 1..Len(Split(token, ".")) : Split(token, ".")[i] # <<>>

\* EventUtils.parseBare
parseBare(token) ==
    IF Text(toLowerCase(token)) = "true" THEN HBool(TRUE)
    ELSE IF Text(toLowerCase(token)) = "false" THEN HBool(FALSE)
    ELSE IF IsDecimal(token) THEN HNum(ParseNumber(token))
    ELSE HStr(token)

RECURSIVE SkipSeparators(_, _)
\* line 222: the last index of the white space and commas that follow index i
SkipSeparators(argStr, i) ==
    IF i + 1 <= Len(argStr) /\ argStr[i + 1] \in {" ", ","} THEN SkipSeparators(argStr, i + 1)
    ELSE i

RECURSIVE ArgsFrom(_, _, _, _, _)
\* the loop of parseArgs from index i on: cur, inStr ("" for null) and args
ArgsFrom(argStr, i, cur, inStr, args) ==
    IF i > Len(argStr)
    THEN (IF Trim(cur) # <<>> THEN Append(args, parseBare(Trim(cur))) ELSE args)
    ELSE CASE inStr = "" /\ argStr[i] \in {"'", "\""} ->
                ArgsFrom(argStr, i + 1, cur, argStr[i], args)
           [] inStr # "" /\ argStr[i] = inStr ->
                ArgsFrom(argStr, SkipSeparators(argStr, i) + 1, <<>>, "", Append(args, HStr(cur)))
           [] inStr = "" /\ argStr[i] = "," ->
                ArgsFrom(argStr, i + 1, <<>>, "", Append(args, parseBare(Trim(cur))))
           [] OTHER -> ArgsFrom(argStr, i + 1, Append(cur, argStr[i]), inStr, args)

\* EventUtils.parseArgs
parseArgs(argStr) == IF Trim(argStr) = <<>> THEN <<>> ELSE ArgsFrom(argStr, 1, <<>>, "", <<>>)

\* args[i] ?? default
Arg(args, i, default) == IF i <= Len(args) THEN args[i] ELSE default

\* dec of round, toFixed and pct: N(args[0] ?? 0), as toFixed reads it
Dec(args) == IF N(Arg(args, 1, HNum(0))) < 0 THEN 0 ELSE N(Arg(args, 1, HNum(0))) \div 1000

\* Math.round(num * factor) / factor
Round(m, dec) == ((m * Pow10(dec) + 500) \div 1000) * (1000 \div Pow10(dec))

\* a switch whose pct puts the sign behind the value as it stands
Helper_PctAppends(name, args, value) ==
    CASE name = "upper" -> HStr(toUpperCase(S(value)))
      [] name = "round" -> HNum(Round(N(value), Dec(args)))
      [] name = "toFixed" ->
            (IF N(value) < 0 THEN value ELSE HStr(toFixed(N(value), Dec(args))))
      [] name = "pct" -> HStr(Append(S(value), "%"))
      [] OTHER -> value

\* the switch of applyHelper (lines 140-207)
Helper(name, args, value) ==
    CASE name = "upper" -> HStr(toUpperCase(S(value)))
      [] name = "lower" -> HStr(toLowerCase(S(value)))
      [] name = "trim" -> HStr(Trim(S(value)))
      [] name = "len" -> HNum(Len(S(value)) * 1000)
      [] name = "cat" -> HStr(S(value) \o S(Arg(args, 1, HStr(<<>>))))
      [] name = "round" ->
            (IF N(value) < 0 THEN value
             ELSE IF N(Arg(args, 1, HNum(0))) < 0 THEN HNaN
             ELSE HNum(Round(N(value), Dec(args))))
      [] name = "toFixed" ->
            (IF N(value) < 0 THEN value ELSE HStr(toFixed(N(value), Dec(args))))
      [] name = "pct" ->
            (IF N(value) < 0 THEN value ELSE HStr(Append(toFixed(N(value), Dec(args)), "%")))
      [] OTHER -> value   \* an unknown helper (sub, slice, padStart, padEnd, bytes: not used here)

\* the characters a name of a helper starts with
Letters ==
    {"a", "b", "c", "d", "e", "f", "g", "h", "i", "j", "k", "l", "m",
     "n", "o", "p", "q", "r", "s", "t", "u", "v", "w", "x", "y", "z",
     "A", "B", "C", "D", "E", "F", "G", "H", "I", "J", "K", "L", "M",
     "N", "O", "P", "Q", "R", "S", "T", "U", "V", "W", "X", "Y", "Z", "_"}

RECURSIVE NameEnd(_, _)
\* the length of the name fnSpec starts with, i characters of it read
NameEnd(fnSpec, i) ==
    IF /\ i < Len(fnSpec)
       /\ fnSpec[i + 1] \in Letters \cup {"0", "1", "2", "3", "4", "5", "6", "7", "8", "9"}
    THEN NameEnd(fnSpec, i + 1)
    ELSE i

\* fnSpec.match(/^([a-zA-Z_][a-zA-Z0-9_]*)\s*(?:\((.*)\))?$/) for a name of e
\* characters followed by rest
Matched(fnSpec, e, rest, value) ==
    IF e = 0 \/ ~(rest = <<>> \/ (Len(rest) >= 2 /\ rest[1] = "(" /\ rest[Len(rest)] = ")"))
    THEN value
    ELSE Helper(Text(SubSeq(fnSpec, 1, e)),
                IF rest = <<>> THEN <<>> ELSE parseArgs(Inner(rest, 1)), value)

Named(fnSpec, e, value) == Matched(fnSpec, e, Trim(SubSeq(fnSpec, e + 1, Len(fnSpec))), value)

\* EventUtils.applyHelper
applyHelper(fnSpec, value) ==
    Named(fnSpec, IF fnSpec # <<>> /\ fnSpec[1] \in Letters THEN NameEnd(fnSpec, 1) ELSE 0, value)

RECURSIVE SplitColons(_, _, _, _, _)
\* the loop of splitByColonOutsideParens from index i on
SplitColons(input, i, buf, depth, out) ==
    IF i > Len(input) THEN (IF buf # <<>> THEN Append(out, buf) ELSE out)
    ELSE CASE input[i] = "(" -> SplitColons(input, i + 1, Append(buf, "("), depth + 1, out)
           [] input[i] = ")" ->
                SplitColons(input, i + 1, Append(buf, ")"), IF depth > 0 THEN depth - 1 ELSE 0, out)
           [] input[i] = ":" /\ depth = 0 -> SplitColons(input, i + 1, <<>>, depth, Append(out, buf))
           [] OTHER -> SplitColons(input, i + 1, Append(buf, input[i]), depth, out)

\* EventUtils.splitByColonOutsideParens
splitByColonOutsideParens(input) == SplitColons(input, 1, <<>>, 0, <<>>)

\* lines 99-104: the value the head of a placeholder names
HeadValue(head, payload, wv) ==
    IF Text(head) = "value" THEN wv ELSE getValueByPath(payload, head)

RECURSIVE Chain(_, _, _)
\* lines 107-109: the helpers tokens[i..] applied to v, one after the other
Chain(tokens, i, v) ==
    IF i > Len(tokens) THEN v ELSE Chain(tokens, i + 1, applyHelper(Trim(tokens[i]), v))

\* spec.match(/^store\.([^\.]+)\.(.+)$/) on the text after "store.": the
\* entry read, "" without a match
StoreSpec(rest, parts, st) ==
    IF Len(parts) >= 2 /\ parts[1] # <<>> /\ Len(rest) > Len(parts[1]) + 1
    THEN StoreGet(st, Text(parts[1]), Text(SubSeq(rest, Len(parts[1]) + 2, Len(rest))))
    ELSE Str("")

\* resolvePlaceholder on the text of a placeholder
ResolveSpec(spec, tokens, payload, wv, st) ==
    IF Len(spec) >= 6 /\ SubSeq(spec, 1, 6) = <<"s", "t", "o", "r", "e", ".">>
    THEN StoreSpec(SubSeq(spec, 7, Len(spec)), Split(SubSeq(spec, 7, Len(spec)), "."), st)
    ELSE IF tokens = <<>> THEN Str("")
    ELSE Lower(Chain(tokens, 2, Lift(HeadValue(Trim(tokens[1]), payload, wv))))

\* EventUtils.resolvePlaceholder; wv is payload.__watcher_value
resolvePlaceholder(ph, payload, wv, st) ==
    CASE ph.kind = "store" -> StoreGet(st, ph.w, ph.s)
      [] ph.kind = "value" -> wv
      [] ph.kind = "spec" ->
            ResolveSpec(Trim(ph.path), splitByColonOutsideParens(Trim(ph.path)), payload, wv, st)
      [] OTHER -> getValueByPath(payload, ph.path)

\* the replacement interpolate makes for one placeholder
Replacement(result) ==
    IF result.t = "object" THEN "[json]"
    ELSE IF result.t = "null" THEN "null"
    ELSE IF result.t = "undefined" THEN ""
    ELSE String(result)

RECURSIVE interpolate(_, _, _)
\* EventUtils.interpolate (payload carries no __watcher_value here)
interpolate(template, payload, st) ==
    IF template = <<>> THEN ""
    ELSE LET part == Head(template) IN
         (IF part.lit THEN part.s
          ELSE Replacement(resolvePlaceholder(part.ph, payload, Undef, st)))
         \o interpolate(Tail(template), payload, st)

(***************************************************************************)
(* The expression engine, on the tokens of an expression.                  *)
(***************************************************************************)
Tok(k, s, n, ph) == [k |-> k, s |-> s, n |-> n, ph |-> ph]
TOp(s) == Tok("op", s, 0, NoPh)
TLParen == Tok("(", "(", 0, NoPh)
TRParen == Tok(")", ")", 0, NoPh)
TValue == Tok("value", "value", 0, NoPh)
TPh(ph) == Tok("ph", "", 0, ph)
TBool(b) == Tok("bool", IF b THEN "true" ELSE "false", 0, NoPh)
TQuoted(s) == Tok("quoted", s, 0, NoPh)
TNum(n) == Tok("num", "", n, NoPh)
TBare(s) == Tok("bare", s, 0, NoPh)

prec(op) ==
    CASE op = "!" -> 5
      [] op \in {"==", "!=", ">=", "<=", ">", "<"} -> 4
      [] op = "&&" -> 3
      [] OTHER -> 2

Top(stack) == stack[Len(stack)]
Pop(stack) == SubSeq(stack, 1, Len(stack) - 1)

RECURSIVE CloseParen(_, _)
\* toRPN at ")": pop operators to the output down to the matching "("
CloseParen(out, ops) ==
    IF ops # <<>> /\ Top(ops).k # "("
    THEN CloseParen(Append(out, Top(ops)), Pop(ops))
    ELSE [out |-> out, ops |-> IF ops # <<>> THEN Pop(ops) ELSE ops]

RECURSIVE PushOp(_, _, _)
\* toRPN at an operator t: pop the operators that bind at least as tightly
PushOp(t, out, ops) ==
    IF /\ ops # <<>>
       /\ Top(ops).k = "op"
       /\ IF t.s = "!" THEN prec(t.s) < prec(Top(ops).s) ELSE prec(t.s) <= prec(Top(ops).s)
    THEN PushOp(t, Append(out, Top(ops)), Pop(ops))
    ELSE [out |-> out, ops |-> Append(ops, t)]

RECURSIVE Drain(_, _)
Drain(out, ops) == IF ops = <<>> THEN out ELSE Drain(Append(out, Top(ops)), Pop(ops))

RECURSIVE Shunt(_, _, _, _)
Shunt(tokens, i, out, ops) ==
    IF i > Len(tokens) THEN Drain(out, ops)
    ELSE LET t == tokens[i] IN
         IF t.k = "(" THEN Shunt(tokens, i + 1, out, Append(ops, t))
         ELSE IF t.k = ")"
         THEN LET r == CloseParen(out, ops) IN Shunt(tokens, i + 1, r.out, r.ops)
         ELSE IF t.k = "op"
         THEN LET r == PushOp(t, out, ops) IN Shunt(tokens, i + 1, r.out, r.ops)
         ELSE Shunt(tokens, i + 1, Append(out, t), ops)

\* EventUtils.toRPN
toRPN(tokens) == Shunt(tokens, 1, <<>>, <<>>)

\* EventUtils.truthy
truthy(v) == IF v.t = "string" THEN v.s # "" ELSE ~Falsy(v)

\* the order of the strings the model's payloads and rules can produce (UTF-16)
KnownStrings == <<"", "/", "/data", "0", "5", "7", "80", "90", "91", "92", "95",
                  "[object Object]", "false", "null", "srv", "true", "undefined", "web">>

StringRank(s) ==
    IF \E i \in 1..Len(KnownStrings) : KnownStrings[i] = s
    THEN CHOOSE i \in 1..Len(KnownStrings) : KnownStrings[i] = s
    ELSE 0

\* the isNum test of compareOp, n being Number(v)
IsNum(v, n) == n.t # "NaN" /\ v # Str("") /\ v.t # "null" /\ v.t # "boolean"

\* the comparison of compareOp on two numbers or two string ranks
Ordered(op, x, y) ==
    CASE op = ">" -> x > y
      [] op = "<" -> x < y
      [] op = ">=" -> x >= y
      [] op = "<=" -> x <= y
      [] OTHER -> FALSE

\* compareOp with na = Number(a), nb = Number(b)
CompareWith(a, op, b, na, nb) ==
    IF op \in {"==", "!="}
    THEN (op = "==") <=> (String(normalizeValue(a)) = String(normalizeValue(b)))
    ELSE IF IsNum(a, na) /\ IsNum(b, nb)
    THEN Ordered(op, na.n, nb.n)
    ELSE Ordered(op, StringRank(String(a)), StringRank(String(b)))

\* EventUtils.compareOp
compareOp(a, op, b) == CompareWith(a, op, b, Number(a), Number(b))

\* EventUtils.resolveOperand
resolveOperand(t, payload, wv, st) ==
    CASE t.k = "value" -> wv
      [] t.k = "ph" -> resolvePlaceholder(t.ph, payload, wv, st)
      [] t.k = "bool" -> Bool(t.s = "true")
      [] t.k = "quoted" -> Str(t.s)
      [] t.k = "num" -> Num(t.n)
      [] OTHER -> Str(t.s)

\* Array.prototype.pop: the value (undefined when empty) and what is left
PopVal(stack) == IF stack = <<>> THEN Undef ELSE Top(stack)
PopRest(stack) == IF stack = <<>> THEN stack ELSE Pop(stack)

RECURSIVE Machine(_, _, _, _, _, _)
\* the loop of evalRPN
Machine(rpn, i, stack, payload, wv, st) ==
    IF i > Len(rpn) THEN truthy(PopVal(stack))
    ELSE LET t == rpn[i]
             b == PopVal(stack)
             s1 == PopRest(stack)
             a == PopVal(s1)
             s2 == PopRest(s1)
         IN  IF t.k = "op" /\ t.s = "!"
             THEN Machine(rpn, i + 1, Append(s1, Bool(~truthy(b))), payload, wv, st)
             ELSE IF t.k = "op" /\ t.s = "&&"
             THEN Machine(rpn, i + 1, Append(s2, Bool(truthy(a) /\ truthy(b))), payload, wv, st)
             ELSE IF t.k = "op" /\ t.s = "||"
             THEN Machine(rpn, i + 1, Append(s2, Bool(truthy(a) \/ truthy(b))), payload, wv, st)
             ELSE IF t.k = "op"
             THEN Machine(rpn, i + 1, Append(s2, Bool(compareOp(a, t.s, b))), payload, wv, st)
             ELSE Machine(rpn, i + 1, Append(stack, resolveOperand(t, payload, wv, st)),
                          payload, wv, st)

\* EventUtils.evalRPN
evalRPN(rpn, payload, wv, st) == Machine(rpn, 1, <<>>, payload, wv, st)

\* EventUtils.evaluateExpression, from the expression's tokens
evaluateExpression(tokens, actual, payload, st) == evalRPN(toRPN(tokens), payload, actual, st)

(***************************************************************************)
(* The expression engine, on the characters of an expression.              *)
(***************************************************************************)
\* expr.slice(a, b), a and b counted from 0
Slice(chars, a, b) == SubSeq(chars, a + 1, IF b < Len(chars) THEN b ELSE Len(chars))

\* expr[i], i counted from 0 (undefined past the end)
CharAt(chars, i) == IF i < Len(chars) THEN chars[i + 1] ELSE ""

RECURSIVE BraceEnd(_, _, _)
\* lines 280-285: the index after the brace that closes "${"
BraceEnd(chars, j, depth) ==
    IF j < Len(chars) /\ depth > 0
    THEN BraceEnd(chars, j + 1,
                  CASE chars[j + 1] = "{" -> depth + 1
                    [] chars[j + 1] = "}" -> depth - 1
                    [] OTHER -> depth)
    ELSE j

RECURSIVE QuoteEnd(_, _, _)
\* line 295: the index of the closing quote
QuoteEnd(chars, j, quote) ==
    IF j < Len(chars) /\ chars[j + 1] # quote THEN QuoteEnd(chars, j + 1, quote) ELSE j

RECURSIVE BareEnd(_, _)
\* line 302: the index after a run of characters of [^\s\)\(\!\&\|\=\<\>]
BareEnd(chars, j) ==
    IF j < Len(chars) /\ chars[j + 1] \notin {" ", ")", "(", "!", "&", "|", "=", "<", ">"}
    THEN BareEnd(chars, j + 1)
    ELSE j

\* push(t): out.push(t) if t.length
Push(out, t) == IF t # <<>> THEN Append(out, t) ELSE out

\* lines 271-304: one pass of the body of while (i < expr.length)
TokenizeIteration(t) ==
    LET ch == CharAt(t.expr, t.i)
        two == Text(Slice(t.expr, t.i, t.i + 2))
    IN  IF ch = " " THEN [t EXCEPT !.i = @ + 1]
        ELSE IF two \in {"==", "!=", ">=", "<=", "&&", "||"}
        THEN [t EXCEPT !.out = Push(@, Slice(t.expr, t.i, t.i + 2)), !.i = @ + 2]
        ELSE IF ch \in {"(", ")", ">", "<", "!"}
        THEN [t EXCEPT !.out = Push(@, <<ch>>), !.i = @ + 1]
        ELSE IF ch = "$" /\ CharAt(t.expr, t.i + 1) = "{"
        THEN [t EXCEPT !.out = Push(@, Slice(t.expr, t.i, BraceEnd(t.expr, t.i + 2, 1))),
                       !.i = BraceEnd(t.expr, t.i + 2, 1)]
        ELSE IF ch \in {"'", "\""}
        THEN [t EXCEPT !.out = Push(@, Slice(t.expr, t.i, QuoteEnd(t.expr, t.i + 1, ch) + 1)),
                       !.i = QuoteEnd(t.expr, t.i + 1, ch) + 1]
        ELSE [t EXCEPT !.out = Push(@, Slice(t.expr, t.i, BareEnd(t.expr, t.i))),
                       !.i = BareEnd(t.expr, t.i)]

\* t.startsWith("${") && t.endsWith("}")
IsPlaceholder(t) == Len(t) >= 2 /\ t[1] = "$" /\ t[2] = "{" /\ t[Len(t)] = "}"

\* t starts and ends with the same quote
IsQuoted(t) == t # <<>> /\ t[1] \in {"'", "\""} /\ t[Len(t)] = t[1]

\* what resolveOperand reads in a token that is not an operator or a
\* parenthesis (lines 397-415); a placeholder is a path or "value", a number
\* a run of digits
Operand(t) ==
    IF Text(t) = "value" THEN TValue
    ELSE IF IsPlaceholder(t)
    THEN TPh(IF Text(Inner(t, 2)) = "value" THEN PhValue ELSE PhPath(Inner(t, 2)))
    ELSE IF ToLowerCase(Text(t)) \in {"true", "false"} THEN TBool(ToLowerCase(Text(t)) = "true")
    ELSE IF IsQuoted(t) THEN TQuoted(Text(Inner(t, 1)))
    ELSE IF DigitsValue(t, 0) >= 0 THEN TNum(DigitsValue(t, 0))
    ELSE TBare(Text(t))

\* a token of tokenize as toRPN and evalRPN read it
Classify(raw) ==
    IF raw = <<"(">> THEN TLParen
    ELSE IF raw = <<")">> THEN TRParen
    ELSE IF Text(raw) \in {"!", "==", "!=", ">=", "<=", ">", "<", "&&", "||"} THEN TOp(Text(raw))
    ELSE Operand(Trim(raw))

\* the tokens of tokenize, classified
Classified(out) == [x \in 1..Len(out) |-> Classify(out[x])]

\* evaluateExpression at its first line: tokenize about to start on expr
Start(expr, actual) ==
    [phase |-> "tokenize", expr |-> expr, actual |-> actual, i |-> 0, out |-> <<>>,
     iter |-> 0, result |-> FALSE]

(***************************************************************************)
(* Watcher: keys, active hours, dependencies.  A rule field that is not    *)
(* set holds the value the code defaults it to where it reads it: 0 for a  *)
(* number, "" for edge and the severities, <<>> for a template, an         *)
(* expression, activeHours and dependencies, Undef for value.              *)
(***************************************************************************)
Watch(wi) == cfg.watchList[wi]
Event(wi, ei) == cfg.watchList[wi].events[ei]

\* v[p] of a payload value
Prop(v, p) == IF v.t = "object" /\ p \in DOMAIN v.o THEN v.o[p] ELSE Undef

\* a computeStatusKey that ignores the stateKey
computeStatusKey_SubjectOnly(event, payload, st) ==
    IF event.dynamic THEN "" ELSE Text(event.subject)

\* Watcher.computeStatusKey ("" for null)
computeStatusKey(event, payload, st) ==
    IF event.dynamic THEN ""
    ELSE IF event.stateKey # <<>>
    THEN interpolate(event.stateKey, payload, st) \o "::" \o Text(event.subject)
    ELSE Text(event.subject)

\* `${x ?? ""}`
OrEmpty(v) == IF v.t \in {"undefined", "null"} THEN "" ELSE String(v)

\* a computeConditionKey that takes the tags only when both are there
computeConditionKey_BothTags(listId, event, cond, condIdx, payload, st) ==
    LET byKey == IF cond.key # <<>> THEN interpolate(cond.key, payload, st) ELSE ""
        byStateKey == IF event.stateKey # <<>> THEN interpolate(event.stateKey, payload, st) ELSE ""
        host == Prop(Prop(payload, "tags"), "host")
        path == Prop(Prop(payload, "tags"), "path")
        base == IF byKey # "" THEN byKey
                ELSE IF byStateKey # "" THEN byStateKey
                ELSE IF ~Falsy(host) /\ ~Falsy(path) THEN String(host) \o ":" \o String(path)
                ELSE Text(event.subject)
    IN  listId \o "::" \o Text(event.subject) \o "::" \o ToString(condIdx - 1) \o "::" \o base

\* Watcher.computeConditionKey
computeConditionKey(listId, event, cond, condIdx, payload, st) ==
    LET byKey == IF cond.key # <<>> THEN interpolate(cond.key, payload, st) ELSE ""
        byStateKey == IF event.stateKey # <<>> THEN interpolate(event.stateKey, payload, st) ELSE ""
        tags == Prop(payload, "tags")
        host == Prop(tags, "host")
        path == Prop(tags, "path")
        base == IF byKey # "" THEN byKey
                ELSE IF byStateKey # "" THEN byStateKey
                ELSE IF ~Falsy(tags) /\ (~Falsy(host) \/ ~Falsy(path))
                THEN OrEmpty(host) \o ":" \o OrEmpty(path)
                ELSE Text(event.subject)
    IN  listId \o "::" \o Text(event.subject) \o "::" \o ToString(condIdx - 1) \o "::" \o base

\* a CondStateOf whose default entry says the condition matched before
CondStateOf_SeenBefore(cs, key) ==
    IF key \in DOMAIN cs THEN cs[key] ELSE [prevMatch |-> TRUE, lastSentAt |-> 0]

\* a CondStateOf whose default entry is stamped with the time the watcher started
CondStateOf_SentAtStart(cs, key) ==
    IF key \in DOMAIN cs THEN cs[key] ELSE [prevMatch |-> FALSE, lastSentAt |-> cfg.epoch]

\* this.conditionState[key] || { prevMatch: false, lastSentAt: 0 }
CondStateOf(cs, key) == IF key \in DOMAIN cs THEN cs[key] ELSE [prevMatch |-> FALSE, lastSentAt |-> 0]

\* m[k] = v on a JavaScript object used as a map
Put(m, k, v) == [x \in DOMAIN m \cup {k} |-> IF x = k THEN v ELSE m[x]]

\* a shouldNotifyByEdgeCooldown that never looks at the cooldown
shouldNotify_NoCooldown(cs, key, cond, nowEpochSec) ==
    LET edge == IF cond.edge = "" THEN "level" ELSE cond.edge
        st == CondStateOf(cs, key)
        allow == IF edge = "rising" THEN ~st.prevMatch ELSE TRUE
        st2 == [prevMatch |-> TRUE,
                lastSentAt |-> IF allow THEN nowEpochSec ELSE st.lastSentAt]
    IN  [allow |-> allow, cs |-> Put(cs, key, st2)]

\* a shouldNotifyByEdgeCooldown that never looks at the edge
shouldNotify_NoEdge(cs, key, cond, nowEpochSec) ==
    LET cooldown == cond.cooldownSec
        st == CondStateOf(cs, key)
        allow == ~(cooldown > 0 /\ (nowEpochSec - st.lastSentAt) < cooldown)
        st2 == [prevMatch |-> TRUE,
                lastSentAt |-> IF allow THEN nowEpochSec ELSE st.lastSentAt]
    IN  [allow |-> allow, cs |-> Put(cs, key, st2)]

\* a shouldNotifyByEdgeCooldown that records the match only when it lets it
\* through: a match held back by the cooldown leaves prevMatch as it was
shouldNotify_HeldBackUnseen(cs, key, cond, nowEpochSec) ==
    LET edge == IF cond.edge = "" THEN "level" ELSE cond.edge
        cooldown == cond.cooldownSec
        st == CondStateOf(cs, key)
        allow0 == IF edge = "rising" THEN ~st.prevMatch ELSE TRUE
        allow == allow0 /\ ~(cooldown > 0 /\ (nowEpochSec - st.lastSentAt) < cooldown)
        st2 == [prevMatch |-> IF allow0 /\ ~allow THEN st.prevMatch ELSE TRUE,
                lastSentAt |-> IF allow THEN nowEpochSec ELSE st.lastSentAt]
    IN  [allow |-> allow, cs |-> Put(cs, key, st2)]

\* Watcher.shouldNotifyByEdgeCooldown: the verdict and the conditionState it leaves
shouldNotifyByEdgeCooldown(cs, key, cond, nowEpochSec) ==
    LET edge == IF cond.edge = "" THEN "level" ELSE cond.edge
        cooldown == cond.cooldownSec
        st == CondStateOf(cs, key)
        allow0 == IF edge = "rising" THEN ~st.prevMatch ELSE TRUE
        allow == allow0 /\ ~(cooldown > 0 /\ (nowEpochSec - st.lastSentAt) < cooldown)
        st2 == [prevMatch |-> TRUE,
                lastSentAt |-> IF allow THEN nowEpochSec ELSE st.lastSentAt]
    IN  [allow |-> allow, cs |-> Put(cs, key, st2)]

\* a "mark not-matched" path that leaves prevMatch as it is
MarkNotMatched_Kept(cs, key) == Put(cs, key, CondStateOf(cs, key))

\* a "mark not-matched" path that also forgets when the condition last sent
MarkNotMatched_Forget(cs, key) == Put(cs, key, [prevMatch |-> FALSE, lastSentAt |-> 0])

\* a "mark not-matched" path that marks every key of the watcher
MarkNotMatched_All(cs, key) ==
    [k \in DOMAIN cs \cup {key} |-> [CondStateOf(cs, k) EXCEPT !.prevMatch = FALSE]]

\* Watcher.run, the "mark not-matched" path of a rising condition
MarkNotMatched(cs, key) == Put(cs, key, [CondStateOf(cs, key) EXCEPT !.prevMatch = FALSE])

\* "HH:MM".split(":").map(Number), as hours * 60 + minutes (-1 for NaN)
MinuteOfDay(hhmm) ==
    LET parts == Split(hhmm, ":")
        h == DigitsValue(parts[1], 0)
        m == IF Len(parts) < 2 THEN -1 ELSE DigitsValue(parts[2], 0)
    IN  IF h < 0 \/ m < 0 THEN -1 ELSE h * 60 + m

\* new Date(): getHours() * 60 + getMinutes(), local time being UTC
LocalMinutes(t) == ((t \div 3600) % 24) * 60 + ((t \div 60) % 60)

\* a range that ends before its last minute
InRange_Exclusive(range, minutes) ==
    LET fromMin == MinuteOfDay(range.from)
        toMin == MinuteOfDay(range.to)
        ge == fromMin >= 0 /\ minutes >= fromMin
        lt == toMin >= 0 /\ minutes < toMin
    IN  IF fromMin >= 0 /\ toMin >= 0 /\ fromMin <= toMin THEN ge /\ lt ELSE ge \/ lt

\* one range of Watcher.isInActiveHours (a comparison with NaN is false)
InRange(range, minutes) ==
    LET fromMin == MinuteOfDay(range.from)
        toMin == MinuteOfDay(range.to)
        ge == fromMin >= 0 /\ minutes >= fromMin
        le == toMin >= 0 /\ minutes <= toMin
    IN  IF fromMin >= 0 /\ toMin >= 0 /\ fromMin <= toMin THEN ge /\ le ELSE ge \/ le

\* Watcher.isInActiveHours
isInActiveHours(event, t) ==
    \/ event.activeHours = <<>>
    \/ \E i \in 1..Len(event.activeHours) : InRange(event.activeHours[i], LocalMinutes(t))

\* a dependency compared without normalizeValue
DependencyHolds_Raw(dep, st) ==
    LET parts == Split(dep.path, ".") IN
    IF Len(parts) # 2 THEN FALSE
    ELSE StrictEquals(StoreGet(st, Text(parts[1]), Text(parts[2])), dep.state)

\* a dependency that is skipped when its path is not <watchId>.<subject>
DependencyHolds_Skipped(dep, st) ==
    LET parts == Split(dep.path, ".") IN
    IF Len(parts) # 2 THEN TRUE
    ELSE StrictEquals(normalizeValue(StoreGet(st, Text(parts[1]), Text(parts[2]))),
                      normalizeValue(dep.state))

\* one dependency of Watcher.dependenciesSatisfied
DependencyHolds(dep, st) ==
    LET parts == Split(dep.path, ".") IN
    IF Len(parts) # 2 THEN FALSE
    ELSE StrictEquals(normalizeValue(StoreGet(st, Text(parts[1]), Text(parts[2]))),
                      normalizeValue(dep.state))

\* Watcher.dependenciesSatisfied
dependenciesSatisfied(event, st) ==
    \A i \in 1..Len(event.dependencies) : DependencyHolds(event.dependencies[i], st)

(***************************************************************************)
(* Watcher.run: the "message" handler.  L is the state the handler works   *)
(* on: the store, this watcher's eventStatus (es) and conditionState (cs), *)
(* the event loop's timers, and the histories.  A value the code computes  *)
(* once and reads several times is a parameter of the operator that reads  *)
(* it.                                                                     *)
(***************************************************************************)
\* the text of a template as written in the configuration
PhText(ph) ==
    CASE ph.kind = "store" -> "store." \o ph.w \o "." \o ph.s
      [] ph.kind = "value" -> "value"
      [] OTHER -> Text(ph.path)

RECURSIVE RawText(_)
RawText(template) ==
    IF template = <<>> THEN ""
    ELSE (IF Head(template).lit THEN Head(template).s
          ELSE "${" \o PhText(Head(template).ph) \o "}")
         \o RawText(Tail(template))

\* an EventStatus whose warning counts as done
NewBucket_Done(event) ==
    [lastValue |-> String(event.default), lastHandledValue |-> <<>>,
     warningTimeout |-> 0, resetTimeout |-> 0, warningDone |-> TRUE]

\* a new EventStatus (no timeout handle is 0, lastHandledValue null is <<>>)
NewBucket(event) ==
    [lastValue |-> String(event.default), lastHandledValue |-> <<>>,
     warningTimeout |-> 0, resetTimeout |-> 0, warningDone |-> FALSE]

\* clearTimeout(handle)
ClearTimeout(ts, handle) == {t \in ts : t.id # handle}

\* a setTimeout callback of the watcher, due `delay` seconds from now
Timer(id, kind, wi, ei, ci, statusKey, warningValue, text, severity, delay) ==
    [id |-> id, kind |-> kind, wi |-> wi, ev |-> ei, ci |-> ci, statusKey |-> statusKey,
     warningValue |-> warningValue, text |-> text, severity |-> severity, due |-> now + delay]

\* MessageService.sendNotifications(listId, text, severity), as the watcher calls it
Notification(listId, text, severity, kind, ei, ci, msg) ==
    [listId |-> listId, text |-> text, severity |-> severity, kind |-> kind,
     ev |-> ei, ci |-> ci, msg |-> msg, t |-> now]

\* cond.severity ?? "info"
Severity(cond) == IF cond.severity = "" THEN "info" ELSE cond.severity

\* cond.warningSeverity ?? "warning"
WarningSeverity(cond) == IF cond.warningSeverity = "" THEN "warning" ELSE cond.warningSeverity

\* a legacy path that sends whatever the bucket holds
LegacyNotify_Always(L, st, listId, cond, ei, ci, valStr, msgText, msg) ==
    [L EXCEPT !.sent = Append(@, Notification(listId, msgText, Severity(cond),
                                              "condition", ei, ci, msg))]

\* lines 199-203: legacy duplicate suppression
LegacyNotify(L, st, listId, cond, ei, ci, valStr, msgText, msg) ==
    IF st.lastValue # valStr
    THEN [L EXCEPT !.sent = Append(@, Notification(listId, msgText, Severity(cond),
                                                   "condition", ei, ci, msg))]
    ELSE L

\* a warning timer that every match starts again
LegacyWarning_Restart(L, wi, ei, ci, cond, statusKey, valStr, warnText) ==
    IF cond.warningThreshold > 0
    THEN [L EXCEPT !.timers = ClearTimeout(@, L.es[statusKey].warningTimeout)
                                \cup {Timer(L.nextTimer, "warning", wi, ei, ci, statusKey,
                                            valStr, warnText, WarningSeverity(cond),
                                            cond.warningThreshold)},
                   !.es[statusKey].warningTimeout = L.nextTimer,
                   !.nextTimer = @ + 1]
    ELSE [L EXCEPT !.timers = ClearTimeout(@, L.es[statusKey].warningTimeout),
                   !.es[statusKey].warningTimeout = 0,
                   !.es[statusKey].warningDone = FALSE]

\* lines 205-220: arm the warning timer, or clear it
LegacyWarning(L, wi, ei, ci, cond, statusKey, valStr, warnText) ==
    IF cond.warningThreshold > 0
    THEN IF L.es[statusKey].warningTimeout = 0
         THEN [L EXCEPT !.timers = @ \cup {Timer(L.nextTimer, "warning", wi, ei, ci, statusKey,
                                                 valStr, warnText, WarningSeverity(cond),
                                                 cond.warningThreshold)},
                        !.es[statusKey].warningTimeout = L.nextTimer,
                        !.nextTimer = @ + 1]
         ELSE L
    ELSE [L EXCEPT !.timers = ClearTimeout(@, L.es[statusKey].warningTimeout),
                   !.es[statusKey].warningTimeout = 0,
                   !.es[statusKey].warningDone = FALSE]

\* a reset timer armed beside the one that is pending
LegacyReset_Stacked(L, wi, ei, ci, cond, statusKey, valStr) ==
    IF cond.reset > 0
    THEN [L EXCEPT !.timers = @ \cup {Timer(L.nextTimer, "reset", wi, ei, ci, statusKey,
                                            "", "", "", cond.reset)},
                   !.es[statusKey].resetTimeout = L.nextTimer,
                   !.es[statusKey].lastHandledValue = <<valStr>>,
                   !.nextTimer = @ + 1]
    ELSE [L EXCEPT !.timers = ClearTimeout(@, L.es[statusKey].resetTimeout),
                   !.es[statusKey].resetTimeout = 0,
                   !.es[statusKey].lastHandledValue = <<valStr>>]

\* lines 222-231: clear the reset timer, arm a new one, record lastHandledValue
LegacyReset(L, wi, ei, ci, cond, statusKey, valStr) ==
    IF cond.reset > 0
    THEN [L EXCEPT !.timers = ClearTimeout(@, L.es[statusKey].resetTimeout)
                                \cup {Timer(L.nextTimer, "reset", wi, ei, ci, statusKey,
                                            "", "", "", cond.reset)},
                   !.es[statusKey].resetTimeout = L.nextTimer,
                   !.es[statusKey].lastHandledValue = <<valStr>>,
                   !.nextTimer = @ + 1]
    ELSE [L EXCEPT !.timers = ClearTimeout(@, L.es[statusKey].resetTimeout),
                   !.es[statusKey].resetTimeout = 0,
                   !.es[statusKey].lastHandledValue = <<valStr>>]

\* cond.warningMessage ? interpolate(cond.warningMessage, data) : cond.message
WarningText(cond, payload, st) ==
    IF cond.warningMessage # <<>> THEN interpolate(cond.warningMessage, payload, st)
    ELSE RawText(cond.message)

\* a legacy path that falls through to the send of line 234
LegacyPath_FallThrough(L, wi, ei, ci, cond, statusKey, valStr, msgText, payload, msg) ==
    [LegacyReset(
        LegacyWarning(
            LegacyNotify(L, L.es[statusKey], Watch(wi).id, cond, ei, ci, valStr, msgText, msg),
            wi, ei, ci, cond, statusKey, valStr, WarningText(cond, payload, L.store)),
        wi, ei, ci, cond, statusKey, valStr)
     EXCEPT !.sent = Append(@, Notification(Watch(wi).id, msgText, Severity(cond),
                                            "condition", ei, ci, msg))]

\* lines 196-232: the legacy stateful path of a matching condition
LegacyPath(L, wi, ei, ci, cond, statusKey, valStr, msgText, payload, msg) ==
    LegacyReset(
        LegacyWarning(
            LegacyNotify(L, L.es[statusKey], Watch(wi).id, cond, ei, ci, valStr, msgText, msg),
            wi, ei, ci, cond, statusKey, valStr, WarningText(cond, payload, L.store)),
        wi, ei, ci, cond, statusKey, valStr)

\* a test of line 196 that looks at the edge only
UserControls_EdgeOnly(cond) == cond.edge # "" /\ cond.edge # "level"

\* line 196: the condition declares an edge other than level, or a cooldown
UserControls(cond) == (cond.edge # "" /\ cond.edge # "level") \/ cond.cooldownSec > 0

\* which way a condition's evaluation goes
Route(event, cond, statusKey, matched, allow) ==
    IF ~matched THEN "unmatched"
    ELSE IF ~allow THEN "suppressed"
    ELSE IF event.dynamic THEN "dynamic"
    ELSE IF ~UserControls(cond) /\ statusKey # "" THEN "legacy"
    ELSE "user"

\* lines 163-165: the match predicate
Matches(cond, actual, payload, st) ==
    IF cond.condition # <<>> THEN evaluateExpression(cond.condition, actual, payload, st)
    ELSE compareValues(cond.value, actual)

\* lines 167-236, by route; verdict is what shouldNotifyByEdgeCooldown returned
Act(L, wi, ei, ci, event, cond, statusKey, valStr, payload, msg, ckey, msgText, verdict, route) ==
    CASE route = "unmatched" ->
            IF cond.edge = "rising" THEN [L EXCEPT !.cs = MarkNotMatched(@, ckey)] ELSE L
      [] route = "suppressed" -> [L EXCEPT !.cs = verdict.cs]
      [] route = "legacy" ->
            LegacyPath([L EXCEPT !.cs = verdict.cs], wi, ei, ci, cond, statusKey, valStr,
                       msgText, payload, msg)
      [] OTHER ->
            [L EXCEPT !.cs = verdict.cs,
                      !.sent = Append(@, Notification(Watch(wi).id, msgText, Severity(cond),
                                                      "condition", ei, ci, msg))]

\* what an evaluation can read and write, in state L: the bucket of statusKey
\* (if there is one), the handles of the timers armed for it, the
\* ConditionState under ckey, the store entry of the event and the number of
\* notifications sent
View(L, wi, ei, statusKey, ckey) ==
    [bucket |-> IF statusKey \in DOMAIN L.es THEN <<L.es[statusKey]>> ELSE <<>>,
     armed |-> {<<tm.id, tm.kind>> : tm \in {t \in L.timers : t.wi = wi /\ t.statusKey = statusKey}},
     state |-> CondStateOf(L.cs, ckey),
     store |-> StoreGet(L.store, Watch(wi).id, Text(Event(wi, ei).subject)),
     sent |-> Len(L.sent)]

\* the keys of this.conditionState whose record differs between L and L1
Touched(L, L1) == {k \in DOMAIN L1.cs : k \notin DOMAIN L.cs \/ L1.cs[k] # L.cs[k]}

\* the history entry of one evaluation; L is the state before it, L1 after it
Evaluation(L, L1, wi, ei, ci, statusKey, valStr, payload, msg, ckey, matched, allow, route) ==
    [L1 EXCEPT !.clog = Append(@,
        [msg |-> msg, wi |-> wi, ev |-> ei, ci |-> ci, t |-> now, key |-> ckey,
         matched |-> matched, allowed |-> matched /\ allow,
         notified |-> Len(L1.sent) > Len(L.sent), route |-> route,
         statusKey |-> statusKey, value |-> valStr, data |-> payload,
         lastValue |-> IF statusKey # "" THEN L.es[statusKey].lastValue ELSE "",
         before |-> View(L, wi, ei, statusKey, ckey),
         after |-> View(L1, wi, ei, statusKey, ckey),
         touched |-> Touched(L, L1)])]

Decided(L, wi, ei, ci, event, cond, statusKey, valStr, payload, msg, ckey, msgText, matched, verdict, route) ==
    Evaluation(L, Act(L, wi, ei, ci, event, cond, statusKey, valStr, payload, msg, ckey,
                      msgText, verdict, route),
               wi, ei, ci, statusKey, valStr, payload, msg, ckey, matched, verdict.allow, route)

Verdict(L, wi, ei, ci, event, cond, statusKey, valStr, payload, msg, ckey, msgText, matched, verdict) ==
    Decided(L, wi, ei, ci, event, cond, statusKey, valStr, payload, msg, ckey, msgText, matched,
            verdict, Route(event, cond, statusKey, matched, verdict.allow))

Evaluated(L, wi, ei, ci, event, cond, statusKey, valStr, payload, msg, ckey, msgText, matched) ==
    Verdict(L, wi, ei, ci, event, cond, statusKey, valStr, payload, msg, ckey, msgText, matched,
            shouldNotifyByEdgeCooldown(L.cs, ckey, cond, now))

\* one pass of the body of event.conditions.forEach (lines 162-237)
ConditionStep(L, wi, ei, ci, event, cond, actual, payload, statusKey, msg) ==
    Evaluated(L, wi, ei, ci, event, cond, statusKey, String(actual), payload, msg,
              computeConditionKey(Watch(wi).id, event, cond, ci, payload, L.store),
              interpolate(cond.message, payload, L.store),
              Matches(cond, actual, payload, L.store))

RECURSIVE ConditionsFrom(_, _, _, _, _, _, _, _, _)
ConditionsFrom(L, wi, ei, ci, event, actual, payload, statusKey, msg) ==
    IF ci > Len(event.conditions) THEN L
    ELSE ConditionsFrom(ConditionStep(L, wi, ei, ci, event, event.conditions[ci], actual,
                                      payload, statusKey, msg),
                        wi, ei, ci + 1, event, actual, payload, statusKey, msg)

\* lines 126-140: how far the event gets
Outcome(event, actual, st) ==
    IF actual.t = "undefined" THEN "absent"
    ELSE IF ~isInActiveHours(event, now) THEN "inactive"
    ELSE IF ~dependenciesSatisfied(event, st) THEN "gated"
    ELSE "evaluated"

\* lines 146-154: the bucket, created on first use
WithBucket(L, event, statusKey) ==
    IF ~event.dynamic /\ statusKey # "" /\ statusKey \notin DOMAIN L.es
    THEN [L EXCEPT !.es = Put(@, statusKey, NewBucket(event))]
    ELSE L

\* a store write that every event makes
WithStore_Always(L, listId, event, valStr) ==
    [L EXCEPT !.store = StoreUpdate(@, listId, Text(event.subject), Str(valStr))]

\* a handler that leaves the store as the constructor seeded it
WithStore_Skipped(L, listId, event, valStr) == L

\* lines 156-158: the store entry of a stateful event
WithStore(L, listId, event, valStr) ==
    IF ~event.dynamic
    THEN [L EXCEPT !.store = StoreUpdate(@, listId, Text(event.subject), Str(valStr))]
    ELSE L

\* lines 239-242: lastValue, after the conditions
WithLastValue(L, event, statusKey, valStr) ==
    IF ~event.dynamic /\ statusKey # ""
    THEN [L EXCEPT !.es[statusKey].lastValue = valStr]
    ELSE L

\* a handler that assigns lastValue before it evaluates the conditions
Proceed_LastValueFirst(L, wi, ei, event, actual, valStr, payload, statusKey, msg) ==
    ConditionsFrom(WithLastValue(WithStore(WithBucket(L, event, statusKey), Watch(wi).id,
                                           event, valStr),
                                 event, statusKey, valStr),
                   wi, ei, 1, event, actual, payload, statusKey, msg)

\* lines 142-242: an event that passed the gates
Proceed(L, wi, ei, event, actual, valStr, payload, statusKey, msg) ==
    WithLastValue(
        ConditionsFrom(WithStore(WithBucket(L, event, statusKey), Watch(wi).id, event, valStr),
                       wi, ei, 1, event, actual, payload, statusKey, msg),
        event, statusKey, valStr)

\* a handler that writes the store for an event it skips at a gate
Gated_Recorded(L, wi, ei, event, actual, payload, msg, outcome) ==
    [(IF outcome = "evaluated"
      THEN Proceed(L, wi, ei, event, actual, String(actual), payload,
                   computeStatusKey(event, payload, L.store), msg)
      ELSE IF outcome = "absent" THEN L
      ELSE WithStore(L, Watch(wi).id, event, String(actual)))
     EXCEPT !.evlog = Append(@, [msg |-> msg, wi |-> wi, ev |-> ei, t |-> now,
                                 outcome |-> outcome, value |-> String(actual)])]

\* lines 127-243: the gates, then the event
Gated(L, wi, ei, event, actual, payload, msg, outcome) ==
    [(IF outcome = "evaluated"
      THEN Proceed(L, wi, ei, event, actual, String(actual), payload,
                   computeStatusKey(event, payload, L.store), msg)
      ELSE L)
     EXCEPT !.evlog = Append(@, [msg |-> msg, wi |-> wi, ev |-> ei, t |-> now,
                                 outcome |-> outcome, value |-> String(actual)])]

Extracted(L, wi, ei, event, actual, payload, msg) ==
    Gated(L, wi, ei, event, actual, payload, msg, Outcome(event, actual, L.store))

\* one pass of the body of this.events.forEach (lines 123-243)
EventStep(L, wi, ei, event, payload, msg) ==
    Extracted(L, wi, ei, event, getValueByPath(payload, event.subject), payload, msg)

RECURSIVE EventsFrom(_, _, _, _, _)
EventsFrom(L, wi, ei, payload, msg) ==
    IF ei > Len(Watch(wi).events) THEN L
    ELSE EventsFrom(EventStep(L, wi, ei, Event(wi, ei), payload, msg), wi, ei + 1, payload, msg)

\* a handler that cancels the pending timers when it drops a message
HandleMessage_DropCancels(L, wi, m, msg) ==
    IF ~m.ok \/ Falsy(m.data)
    THEN [L EXCEPT !.timers = {},
                   !.evlog = Append(@, [msg |-> msg, wi |-> wi, ev |-> 0, t |-> now,
                                        outcome |-> "dropped", value |-> ""])]
    ELSE EventsFrom(L, wi, 1, m.data, msg)

\* the "message" handler (lines 106-244); m.ok is whether JSON.parse returns
HandleMessage(L, wi, m, msg) ==
    IF ~m.ok \/ Falsy(m.data)
    THEN [L EXCEPT !.evlog = Append(@, [msg |-> msg, wi |-> wi, ev |-> 0, t |-> now,
                                        outcome |-> "dropped", value |-> ""])]
    ELSE EventsFrom(L, wi, 1, m.data, msg)

(***************************************************************************)
(* Timer callbacks.                                                        *)
(***************************************************************************)
\* a warning callback that does not compare the bucket's value
warningConditionHandler_Always(es, out, listId, tm) ==
    IF tm.statusKey \notin DOMAIN es THEN [es |-> es, sent |-> out]
    ELSE [es |-> Put(es, tm.statusKey, [es[tm.statusKey] EXCEPT !.warningDone = TRUE]),
          sent |-> Append(out, Notification(listId, tm.text, tm.severity, "warning",
                                            tm.ev, tm.ci, 0))]

\* Watcher.warningConditionHandler: the bucket and the notifications it leaves
warningConditionHandler(es, out, listId, tm) ==
    IF tm.statusKey \notin DOMAIN es THEN [es |-> es, sent |-> out]
    ELSE LET st == es[tm.statusKey] IN
         IF st.warningTimeout # 0 /\ ~st.warningDone
         THEN [es |-> Put(es, tm.statusKey, [st EXCEPT !.warningDone = TRUE]),
               sent |-> IF st.lastValue = tm.warningValue
                        THEN Append(out, Notification(listId, tm.text, tm.severity, "warning",
                                                      tm.ev, tm.ci, 0))
                        ELSE out]
         ELSE [es |-> es, sent |-> out]

\* a reset callback that leaves the bucket alone
resetLastValueHandler_Noop(es, event, statusKey) == es

\* Watcher.resetLastValueHandler
resetLastValueHandler(es, event, statusKey) ==
    IF statusKey \notin DOMAIN es THEN es
    ELSE Put(es, statusKey, [es[statusKey] EXCEPT !.lastValue = String(event.default)])

(***************************************************************************)
(* Configurations (config.watchList with the enabled watchers), each with  *)
(* the payloads delivered to its topics and the steps its clock takes.     *)
(***************************************************************************)
Chars_contact == <<"c", "o", "n", "t", "a", "c", "t">>
Chars_level == <<"l", "e", "v", "e", "l">>
Chars_tamper == <<"t", "a", "m", "p", "e", "r">>
Chars_battery == <<"b", "a", "t", "t", "e", "r", "y">>
Chars_used_percent == <<"f", "i", "e", "l", "d", "s", ".",
                        "u", "s", "e", "d", "_", "p", "e", "r", "c", "e", "n", "t">>
Chars_tags_host == <<"t", "a", "g", "s", ".", "h", "o", "s", "t">>
Chars_tags_path == <<"t", "a", "g", "s", ".", "p", "a", "t", "h">>
Chars_lock_contact == <<"l", "o", "c", "k", ".">> \o Chars_contact

\* an EventCondition with only message and log set
Condition(message) ==
    [value |-> Undef, condition |-> <<>>, log |-> <<Lit(message)>>, message |-> <<Lit(message)>>,
     severity |-> "", edge |-> "", cooldownSec |-> 0, key |-> <<>>,
     warningThreshold |-> 0, warningMessage |-> <<>>, warningSeverity |-> "", reset |-> 0]

\* an EventItem with only subject, default and conditions set
EventItem(subject, default, conditions) ==
    [subject |-> subject, default |-> default, activeHours |-> <<>>, dependencies |-> <<>>,
     dynamic |-> FALSE, stateKey |-> <<>>, conditions |-> conditions]

Message(data) == [ok |-> TRUE, data |-> data]
Malformed == [ok |-> FALSE, data |-> Undef]

\* The door watcher of the README: active 22:00-06:00, a warning after 300 s
DoorEvent ==
    [EventItem(Chars_contact, Bool(TRUE),
        <<[Condition("Door open!") EXCEPT
            !.value = Bool(FALSE), !.severity = "warning", !.warningThreshold = 300,
            !.warningMessage = <<Lit("Open >5m")>>]>>)
     EXCEPT !.activeHours = <<[from |-> <<"2", "2", ":", "0", "0">>,
                               to |-> <<"0", "6", ":", "0", "0">>]>>]

CfgDoor ==
    [name |-> "door",
     watchList |-> <<[id |-> "door", events |-> <<DoorEvent>>]>>,
     payloads |-> <<{Message(Obj([contact |-> Bool(FALSE)])),
                     Message(Obj([contact |-> Bool(TRUE)])),
                     Malformed}>>,
     deltas |-> {60, 240},
     epoch |-> 1700002800]

\* A stateful event that falls back to its default 10 s after the last match
CfgReset ==
    [name |-> "reset",
     watchList |-> <<[id |-> "tank", events |-> <<
        EventItem(Chars_level, Num(0),
            <<[Condition("Level 5") EXCEPT !.value = Num(5), !.reset = 10]>>)>>]>>,
     payloads |-> <<{Message(Obj([level |-> Num(5)])),
                     Message(Obj([level |-> Num(7)])),
                     Message(Obj([other |-> Num(5)]))}>>,
     deltas |-> {5, 10},
     epoch |-> 1700000000]

\* ${fields.used_percent} >= 90 && ${tags.path} == "/"
DiskExpression ==
    <<TPh(PhPath(Chars_used_percent)), TOp(">="), TNum(90), TOp("&&"),
      TPh(PhPath(Chars_tags_path)), TOp("=="), TQuoted("/")>>

\* the README's message, its placeholders taken without helper chains
DiskMessage == <<Lit("ALERT: "), Ph(PhPath(Chars_tags_path)), Lit(" used on "),
                 Ph(PhPath(Chars_tags_host))>>

\* The diskroot watcher of the README (rising edge, 1800 s cooldown, keyed by
\* host and path), with a level condition under a cooldown and a rising
\* condition without one beside it
CfgDisk ==
    [name |-> "disk",
     watchList |-> <<[id |-> "diskroot", events |-> <<
        [EventItem(Chars_used_percent, Num(0),
            <<[Condition("Disk usage high") EXCEPT
                !.condition = DiskExpression, !.message = DiskMessage, !.severity = "warning",
                !.edge = "rising", !.cooldownSec = 1800,
                !.key = <<Ph(PhPath(Chars_tags_host)), Lit(":"), Ph(PhPath(Chars_tags_path))>>],
              [Condition("Disk usage high (level)") EXCEPT
                !.condition = DiskExpression, !.edge = "level", !.cooldownSec = 120],
              [Condition("Disk usage high (edge)") EXCEPT
                !.condition = DiskExpression, !.edge = "rising"]>>)
         EXCEPT !.dynamic = TRUE]>>]>>,
     payloads |-> <<{Message(Obj([fields |-> Obj([used_percent |-> Num(91)]),
                                  tags |-> Obj([host |-> Str("srv"), path |-> Str("/")])])),
                     Message(Obj([fields |-> Obj([used_percent |-> Num(80)]),
                                  tags |-> Obj([host |-> Str("srv"), path |-> Str("/")])])),
                     Message(Obj([fields |-> Obj([used_percent |-> Num(91)]),
                                  tags |-> Obj([host |-> Str("web"), path |-> Str("/")])]))}>>,
     deltas |-> {60, 1840},
     epoch |-> 1700000000]

\* Watcher `door` depends on (lock, contact) = true; its tamper event names a
\* dependency path of three segments
CfgDep ==
    [name |-> "dep",
     watchList |-> <<
        [id |-> "lock", events |-> <<
            EventItem(Chars_contact, Bool(FALSE),
                <<[Condition("Unlocked") EXCEPT !.value = Bool(FALSE)]>>)>>],
        [id |-> "door", events |-> <<
            [EventItem(Chars_contact, Bool(TRUE),
                <<[Condition("Door open!") EXCEPT !.value = Bool(FALSE), !.edge = "level"]>>)
             EXCEPT !.dependencies = <<[path |-> Chars_lock_contact, state |-> Bool(TRUE)]>>],
            [EventItem(Chars_tamper, Bool(FALSE),
                <<[Condition("Tamper!") EXCEPT !.value = Bool(TRUE)]>>)
             EXCEPT !.dependencies = <<[path |-> <<"a", ".", "b", ".", "c">>,
                                        state |-> Bool(TRUE)]>>],
            EventItem(Chars_battery, Num(100),
                <<[Condition("Battery low") EXCEPT !.value = Num(5), !.edge = "rising"]>>)>>]>>,
     payloads |-> <<{Message(Obj([contact |-> Bool(TRUE)])),
                     Message(Obj([contact |-> Bool(FALSE)])),
                     Message(Obj([contact |-> Str("TRUE")])),
                     Message(Obj([contact |-> Num(1)]))},
                    {Message(Obj([contact |-> Bool(FALSE), tamper |-> Bool(TRUE),
                                  battery |-> Num(5)])),
                     Message(Obj([contact |-> Bool(TRUE), tamper |-> Bool(TRUE),
                                  battery |-> Num(50)]))}>>,
     deltas |-> {},
     epoch |-> 1700000000]

Chars_temp == <<"t", "e", "m", "p">>
Chars_load == <<"l", "o", "a", "d">>
Chars_id == <<"i", "d">>

\* a condition on the value 5 with a warning after 10 s and a reset after 10 s
TimedCondition(message) ==
    [Condition(message) EXCEPT !.value = Num(5), !.warningThreshold = 10, !.reset = 10,
                               !.warningMessage = <<Lit(message), Lit(" for 10 s")>>]

\* Two dynamic events, one of them with a stateKey, both with a
\* warningThreshold and a reset, and a stateful event with a stateKey and a
\* warningThreshold beside them
CfgDyn ==
    [name |-> "dyn",
     watchList |-> <<[id |-> "dyn", events |-> <<
        [EventItem(Chars_temp, Num(0), <<TimedCondition("Temp 5")>>)
         EXCEPT !.dynamic = TRUE],
        [EventItem(Chars_load, Num(0), <<TimedCondition("Load 5")>>)
         EXCEPT !.dynamic = TRUE, !.stateKey = <<Ph(PhPath(Chars_id))>>],
        [EventItem(Chars_level, Num(0), <<[TimedCondition("Level 5") EXCEPT !.reset = 0]>>)
         EXCEPT !.stateKey = <<Ph(PhPath(Chars_id))>>]>>]>>,
     payloads |-> <<{Message(Obj([id |-> Str("a"), temp |-> Num(5), load |-> Num(5),
                                  level |-> Num(5)])),
                     Message(Obj([id |-> Str("b"), temp |-> Num(5), load |-> Num(5),
                                  level |-> Num(5)])),
                     Message(Obj([id |-> Str("a"), temp |-> Num(7), load |-> Num(7),
                                  level |-> Num(7)])),
                     Message(Null),
                     Malformed}>>,
     deltas |-> {10},
     epoch |-> 1700000000]

(***************************************************************************)
(* MessageService.                                                         *)
(***************************************************************************)
\* config.notificationList, for the configurations that name recipients
NotificationList(c) == IF "notificationList" \in DOMAIN c THEN c.notificationList ELSE <<>>

\* createTwilioClientOrNull(config) returned a client
TwilioClient(c) == "sms" \in DOMAIN c /\ c.sms

\* one entry of config.notificationList[..].recipients
Recipient(type, recipient, minSeverity) ==
    [type |-> type, recipient |-> recipient, enabled |-> TRUE, minSeverity |-> minSeverity]

\* the property names of the object NotificationMethod: the members of the
\* enum, the reverse mapping a numeric enum has, the function the namespace of
\* the same name merges in, and the names every object inherits
EnumKeys ==
    {"LOG", "MAIL", "SMS", "0", "1", "2", "fromString", "constructor", "toString",
     "valueOf", "hasOwnProperty", "isPrototypeOf", "propertyIsEnumerable", "toLocaleString"}

\* NotificationMethod.fromString(value): "throw" when `value in NotificationMethod`
\* is false, else NotificationMethod[value]: the member (a number, written
\* by its name), the name of a member (a string, written in quotes) or a function
fromString(value) ==
    CASE value \notin EnumKeys -> "throw"
      [] value \in {"LOG", "MAIL", "SMS"} -> value
      [] value = "0" -> "\"LOG\""
      [] value = "1" -> "\"MAIL\""
      [] value = "2" -> "\"SMS\""
      [] OTHER -> "function"

\* setupNotifications throws: some enabled recipient has a type fromString rejects
Throws(nl) ==
    \E i \in 1..Len(nl) : \E j \in 1..Len(nl[i].recipients) :
        nl[i].recipients[j].enabled /\ fromString(nl[i].recipients[j].type) = "throw"

\* MessageService.addRecipient, as setupNotifications calls it for recipient r
addRecipient(list, listId, r) ==
    Append(list, [listId |-> listId, method |-> fromString(r.type), recipient |-> r.recipient,
                  minSeverity |-> IF r.minSeverity = "" THEN "info" ELSE r.minSeverity])

\* the inner loop of setupNotifications: the enabled recipients of one entry
RECURSIVE RecipientsFrom(_, _, _, _)
RecipientsFrom(list, listId, rs, i) ==
    IF i > Len(rs) THEN list
    ELSE RecipientsFrom(IF rs[i].enabled THEN addRecipient(list, listId, rs[i]) ELSE list,
                        listId, rs, i + 1)

\* MQTTWatcherApp.setupNotifications: every recipient added, in order
RECURSIVE setupNotifications(_, _, _)
setupNotifications(list, nl, i) ==
    IF i > Len(nl) THEN list
    ELSE setupNotifications(RecipientsFrom(list, nl[i].id, nl[i].recipients, 1), nl, i + 1)

\* this.list[listId]
ListOf(c, listId) ==
    SelectSeq(setupNotifications(<<>>, NotificationList(c), 1), LAMBDA it : it.listId = listId)

\* the table of sendNotifications
severityOrder == [debug |-> 0, info |-> 1, warning |-> 2, critical |-> 3]

\* severityOrder[s] ?? 1
Level(s) == IF s \in DOMAIN severityOrder THEN severityOrder[s] ELSE 1

\* a filter that drops the recipient's own level
Passes_Above(severity, item) == Level(severity) > Level(item.minSeverity)

\* lines 122-125: the severity filter
Passes(severity, item) == Level(severity) >= Level(item.minSeverity)

\* MessageService.sendNotification: the record of the call; a LOG line is
\* written at once, a mail or an SMS is a send whose promise is pending, an SMS
\* without a client is skipped, and a method that is no member of the enum runs
\* no case of the switch.  The text is prefixed with the local time
sendNotification(out, item, call, x) ==
    Append(out, [call |-> x, listId |-> call.listId, method |-> item.method,
                 recipient |-> item.recipient, minSeverity |-> item.minSeverity,
                 severity |-> call.severity, stamp |-> call.t, text |-> call.text,
                 state |-> CASE item.method = "LOG" -> "logged"
                             [] item.method = "SMS" /\ ~TwilioClient(cfg) -> "skipped"
                             [] item.method \in {"MAIL", "SMS"} -> "pending"
                             [] OTHER -> "unsent"])

\* lines 114-131, for a severity string: the loop over the recipients
RECURSIVE ItemsFrom(_, _, _, _, _)
ItemsFrom(out, items, call, x, i) ==
    IF i > Len(items) THEN out
    ELSE ItemsFrom(IF Passes(call.severity, items[i])
                   THEN sendNotification(out, items[i], call, x) ELSE out,
                   items, call, x, i + 1)

\* MessageService.sendNotifications(listId, message, severity): call x of sent
sendNotifications(out, call, x) == ItemsFrom(out, ListOf(cfg, call.listId), call, x, 1)

\* the calls of sent from x on, fanned out
RECURSIVE FanOut(_, _, _)
FanOut(out, calls, x) ==
    IF x > Len(calls) THEN out
    ELSE FanOut(sendNotifications(out, calls[x], x), calls, x + 1)

\* no template under interpolation
Blank ==
    [phase |-> "idle", template |-> <<>>, payload |-> Undef, p |-> 1, tokens |-> <<>>,
     i |-> 0, v |-> HNaN, result |-> "", applied |-> <<>>]

\* the evaluator at rest
Idle == [Start(<<>>, Undef) EXCEPT !.phase = "idle"]

(***************************************************************************)
(* Watcher.run: the MQTT client and its handlers.  clients holds the state *)
(* of every client run() created, the last being this.client: "connecting" *)
(* (mqtt.connect returned, or the library is reconnecting), "subscribed"   *)
(* (connected, subscribe called) or "ended" (client.end() called).  An     *)
(* ended client emits no further events.                                   *)
(***************************************************************************)
\* a watcher whose client is connected and subscribed
Online == [clients |-> <<"subscribed">>, retry |-> {}, log |-> <<>>]

\* the state of this.client
Client(n) == n.clients[Len(n.clients)]

\* an entry of the transport history
Entry(kind, n, topic, t) == [kind |-> kind, client |-> Len(n.clients), topic |-> topic, t |-> t]

\* lines 80-81: run() replaces this.client by a new client (mqtt.connect)
run(n, t) ==
    [n EXCEPT !.clients = Append(@, "connecting"),
              !.log = Append(@, [kind |-> "run", client |-> Len(n.clients) + 1,
                                 topic |-> "", t |-> t])]

\* a "connect" handler that subscribes twice
onConnect_Twice(n, topic, t) ==
    [n EXCEPT !.clients[Len(n.clients)] = "subscribed",
              !.log = @ \o <<Entry("connect", n, "", t), Entry("subscribe", n, topic, t),
                              Entry("subscribe", n, topic, t)>>]

\* lines 95-104: the "connect" handler subscribes this.client to the topic
onConnect(n, topic, t) ==
    [n EXCEPT !.clients[Len(n.clients)] = "subscribed",
              !.log = @ \o <<Entry("connect", n, "", t), Entry("subscribe", n, topic, t)>>]

\* a handler that ends the client and leaves it at that
onFailure_EndOnly(n, kind, t) ==
    [n EXCEPT !.clients[Len(n.clients)] = "ended",
              !.log = @ \o <<Entry(kind, n, "", t), Entry("end", n, "", t)>>]

\* a handler that sets the timer and leaves the client open
onFailure_NoEnd(n, kind, t) ==
    [n EXCEPT !.retry = @ \cup {[due |-> t + 2500, set |-> t]},
              !.log = Append(@, Entry(kind, n, "", t))]

\* lines 83-93: the "disconnect" and "error" handlers end this.client and
\* set a timer that calls run() after 2500 ms
onFailure(n, kind, t) ==
    [n EXCEPT !.clients[Len(n.clients)] = "ended",
              !.retry = @ \cup {[due |-> t + 2500, set |-> t]},
              !.log = @ \o <<Entry(kind, n, "", t), Entry("end", n, "", t)>>]

\* the library lost the connection and reconnects by itself (no event the
\* watcher listens to)
onClose(n, t) ==
    [n EXCEPT !.clients[Len(n.clients)] = "connecting",
              !.log = Append(@, Entry("close", n, "", t))]

\* the "error" and "disconnect" events and the connection losses of a watcher
Failures(n) ==
    Cardinality({x \in 1..Len(n.log) : n.log[x].kind \in {"error", "disconnect", "close"}})

\* "HH:MM" as the configuration writes it
Clock(h1, h2, m1, m2) == <<h1, h2, ":", m1, m2>>

\* Three events of one watcher: active 22:00-06:00 (over midnight), active
\* 08:00-17:00 and at 00:00, and without activeHours
CfgHours ==
    [name |-> "hours",
     watchList |-> <<[id |-> "hours", events |-> <<
        [EventItem(Chars_contact, Num(0), <<[Condition("Night") EXCEPT !.value = Num(1)]>>)
         EXCEPT !.activeHours = <<[from |-> Clock("2", "2", "0", "0"),
                                   to |-> Clock("0", "6", "0", "0")]>>],
        [EventItem(Chars_level, Num(0), <<[Condition("Day") EXCEPT !.value = Num(1)]>>)
         EXCEPT !.activeHours = <<[from |-> Clock("0", "8", "0", "0"),
                                   to |-> Clock("1", "7", "0", "0")],
                                  [from |-> Clock("0", "0", "0", "0"),
                                   to |-> Clock("0", "0", "0", "0")]>>],
        EventItem(Chars_tamper, Num(0), <<[Condition("Always") EXCEPT !.value = Num(1)]>>)>>]>>,
     payloads |-> <<{Message(Obj([contact |-> Num(1), level |-> Num(1), tamper |-> Num(1)]))}>>,
     deltas |-> {60},
     epoch |-> 1699920000]

\* A dynamic event with one condition per severity and one without a severity;
\* recipients of every minSeverity and one without, one disabled, and a list
\* no watcher names
CfgNotify ==
    [name |-> "notify",
     watchList |-> <<[id |-> "alarm", events |-> <<
        [EventItem(Chars_level, Num(0),
            <<[Condition("Level 0") EXCEPT !.value = Num(0), !.severity = "debug"],
              [Condition("Level 1") EXCEPT !.value = Num(1), !.severity = "info"],
              [Condition("Level 2") EXCEPT !.value = Num(2), !.severity = "warning"],
              [Condition("Level 3") EXCEPT !.value = Num(3), !.severity = "critical"],
              [Condition("Level 4") EXCEPT !.value = Num(4)]>>)
         EXCEPT !.dynamic = TRUE]>>]>>,
     notificationList |-> <<
        [id |-> "alarm", recipients |-> <<
            Recipient("LOG", "console", "debug"),
            Recipient("MAIL", "team@example.org", ""),
            Recipient("MAIL", "oncall@example.org", "warning"),
            Recipient("SMS", "+10000000000", "critical"),
            [Recipient("MAIL", "former@example.org", "debug") EXCEPT !.enabled = FALSE]>>],
        [id |-> "other", recipients |-> <<Recipient("LOG", "audit", "debug")>>],
        [id |-> "alarm", recipients |-> <<Recipient("LOG", "journal", "info")>>]>>,
     sms |-> TRUE,
     payloads |-> <<{Message(Obj([level |-> Num(0)])), Message(Obj([level |-> Num(1)])),
                     Message(Obj([level |-> Num(2)])), Message(Obj([level |-> Num(3)])),
                     Message(Obj([level |-> Num(4)]))}>>,
     deltas |-> {},
     epoch |-> 1700000000]

\* A dynamic event whose condition notifies a mail and an SMS recipient
CfgDelivery ==
    [name |-> "delivery",
     watchList |-> <<[id |-> "alarm", events |-> <<
        [EventItem(Chars_level, Num(0), <<[Condition("Level 1") EXCEPT !.value = Num(1)]>>)
         EXCEPT !.dynamic = TRUE]>>]>>,
     notificationList |-> <<
        [id |-> "alarm", recipients |-> <<
            Recipient("MAIL", "team@example.org", ""),
            Recipient("SMS", "+10000000000", "")>>]>>,
     sms |-> TRUE,
     payloads |-> <<{Message(Obj([level |-> Num(1)]))}>>,
     deltas |-> {},
     epoch |-> 1700000000]

\* value == 5
Expr_Equals == <<"v", "a", "l", "u", "e", " ", "=", "=", " ", "5">>

\* value >= 5 && !(value == 7)
Expr_Range == <<"v", "a", "l", "u", "e", " ", ">", "=", " ", "5", " ", "&", "&", " ", "!", "(", "v", "a", "l", "u", "e", " ", "=", "=", " ", "7", ")">>

\* ${level} < 7 || value == "x"
Expr_Either == <<"$", "{", "l", "e", "v", "e", "l", "}", " ", "<", " ", "7", " ", "|", "|", " ", "v", "a", "l", "u", "e", " ", "=", "=", " ", "\"", "x", "\"">>

\* true
Expr_True == <<"t", "r", "u", "e">>

\* !
Expr_Bang == <<"!">>

\* value !=
Expr_NoOperand == <<"v", "a", "l", "u", "e", " ", "!", "=">>

\* (value == 7
Expr_Unclosed == <<"(", "v", "a", "l", "u", "e", " ", "=", "=", " ", "7">>

\* value == 5)
Expr_Unopened == <<"v", "a", "l", "u", "e", " ", "=", "=", " ", "5", ")">>

\* && value
Expr_Leading == <<"&", "&", " ", "v", "a", "l", "u", "e">>

\* value = 5
Expr_Assign == <<"v", "a", "l", "u", "e", " ", "=", " ", "5">>

\* value & 1
Expr_Ampersand == <<"v", "a", "l", "u", "e", " ", "&", " ", "1">>

\* the expressions given to evaluateExpression
Expressions == {Expr_Equals, Expr_Range, Expr_Either, Expr_True, Expr_Bang, Expr_NoOperand,
                Expr_Unclosed, Expr_Unopened, Expr_Leading, Expr_Assign, Expr_Ampersand}

\* the values of the subject they are evaluated against
Actuals == {Num(5), Num(7)}

\* A watcher whose rules are evaluated by hand
CfgExpr ==
    [name |-> "expr",
     watchList |-> <<[id |-> "expr", events |-> <<
        [EventItem(Chars_level, Num(0), <<>>) EXCEPT !.dynamic = TRUE]>>]>>,
     payloads |-> <<{}>>,
     deltas |-> {},
     epoch |-> 1700000000]

\* A watcher on its topic, without events
CfgNet ==
    [name |-> "net",
     watchList |-> <<[id |-> "door", topic |-> "zigbee2mqtt/DoorSensor", events |-> <<>>]>>,
     payloads |-> <<{Message(Obj([contact |-> Bool(FALSE)]))}>>,
     deltas |-> {1000},
     epoch |-> 1700000000]

\* the minutes of the day the watcher is started in
StartMinutes == {0, 1, 360, 361, 479, 480, 720, 1020, 1021, 1319, 1320, 1439}

(***************************************************************************)
(* Startup: new Watcher(...) for every watcher of the list, in order.      *)
(***************************************************************************)
\* the watchers setupWatchers constructs and adds to the watchdog (a watcher
\* record of the model without the field stands for one with enabled: true)
Watchers(c) ==
    {wi \in 1..Len(c.watchList) :
        "enabled" \in DOMAIN c.watchList[wi] => c.watchList[wi].enabled}

\* the events Watcher.initializeEvents gives a bucket and a store entry
Seeded(c, wi) ==
    {ei \in 1..Len(c.watchList[wi].events) :
        ~c.watchList[wi].events[ei].dynamic /\ c.watchList[wi].events[ei].stateKey = <<>>}

\* Watcher.initializeEvents: this.eventStatus after the constructor
InitialStatus(c, wi) ==
    LET evs == c.watchList[wi].events IN
    [k \in {Text(evs[ei].subject) : ei \in Seeded(c, wi)} |->
        NewBucket(evs[CHOOSE ei \in Seeded(c, wi) : Text(evs[ei].subject) = k])]

\* Watcher.initializeEvents: GlobalEventStore.data after all constructors
InitialStore(c) ==
    LET keys == {<<wi, ei>> \in Watchers(c) \X (1..10) : ei \in Seeded(c, wi)} IN
    [k \in {<<c.watchList[p[1]].id, Text(c.watchList[p[1]].events[p[2]].subject)>> : p \in keys} |->
        LET p == CHOOSE q \in keys :
                    k = <<c.watchList[q[1]].id, Text(c.watchList[q[1]].events[q[2]].subject)>>
        IN  c.watchList[p[1]].events[p[2]].default]

Started(c) ==
    /\ cfg = c
    /\ now = c.epoch
    /\ store = InitialStore(c)
    /\ eventStatus = [wi \in Watchers(c) |-> InitialStatus(c, wi)]
    /\ conditionState = [wi \in Watchers(c) |-> <<>>]
    /\ timers = {}
    /\ nextTimer = 1
    /\ sent = <<>>
    /\ evlog = <<>>
    /\ clog = <<>>
    /\ nmsg = 0
    /\ ntick = 0
    /\ outbox = <<>>
    /\ process = "running"
    /\ net = [wi \in Watchers(c) |-> Online]
    /\ msec = 0

\* the program started, no expression under evaluation
InitWith(c) == Started(c) /\ tk = Idle /\ tpl = Blank /\ job = <<>>

(***************************************************************************)
(* Actions.                                                                *)
(***************************************************************************)
(***************************************************************************)
(* The "message" handler on the event loop, one pass of this.events.forEach *)
(* at a time.  The handler is a synchronous function (lines 106-244 hold   *)
(* no await and no callback of their own), so that a run that has begun    *)
(* stays on the call stack until it returns; the event loop calls the next *)
(* callback, of a timer or of the client, when the stack is empty.  A run  *)
(* takes no time on the clock of the model.                                *)
(***************************************************************************)
\* a handler that awaits between two events
Suspended_BetweenEvents(j) == j.ei > 1

\* whether run j of the handler has handed control back to the event loop
\* before it returned: the handler never does
Suspended(j) ==
    FALSE

\* the runs on the call stack
OnStack == {i \in 1..Len(job) : ~Suspended(job[i])}

\* the event loop can call a callback
CallStackFree == OnStack = {}

\* what the handler leaves, written back to the program's state
Commit(wi, L) ==
    /\ store' = L.store
    /\ eventStatus' = [eventStatus EXCEPT ![wi] = L.es]
    /\ conditionState' = [conditionState EXCEPT ![wi] = L.cs]
    /\ timers' = L.timers
    /\ nextTimer' = L.nextTimer
    /\ sent' = L.sent
    /\ outbox' = FanOut(outbox, L.sent, Len(sent) + 1)
    /\ evlog' = L.evlog
    /\ clog' = L.clog

\* the MQTT client of watcher wi delivers a message
OnMessage(wi, m) ==
    /\ nmsg < MaxMsgs
    /\ process = "running"
    /\ CallStackFree
    /\ Client(net[wi]) = "subscribed"
    /\ Commit(wi, HandleMessage([store |-> store, es |-> eventStatus[wi],
                                 cs |-> conditionState[wi], timers |-> timers,
                                 nextTimer |-> nextTimer, sent |-> sent, evlog |-> evlog,
                                 clog |-> clog], wi, m, nmsg + 1))
    /\ nmsg' = nmsg + 1
    /\ UNCHANGED <<cfg, now, ntick, process, tk, net, msec, tpl, job>>

\* the state the handler of watcher wi reads and writes
Locals(wi) ==
    [store |-> store, es |-> eventStatus[wi], cs |-> conditionState[wi], timers |-> timers,
     nextTimer |-> nextTimer, sent |-> sent, evlog |-> evlog, clog |-> clog]

\* the client of watcher wi emits "message": the handler begins (lines
\* 106-121) and returns at once for a message it drops
Emitted(wi, m) ==
    /\ nmsg < MaxMsgs
    /\ process = "running"
    /\ Client(net[wi]) = "subscribed"
    /\ CallStackFree
    /\ nmsg' = nmsg + 1
    /\ IF ~m.ok \/ Falsy(m.data)
       THEN /\ Commit(wi, HandleMessage(Locals(wi), wi, m, nmsg + 1))
            /\ job' = job
       ELSE /\ job' = Append(job, [wi |-> wi, m |-> m, msg |-> nmsg + 1, ei |-> 1,
                                    from |-> Locals(wi)])
            /\ UNCHANGED <<store, eventStatus, conditionState, timers, nextTimer, sent,
                           outbox, evlog, clog>>
    /\ UNCHANGED <<cfg, now, ntick, process, tk, net, msec, tpl>>

\* the runs without run i
Without(i) == [k \in 1..(Len(job) - 1) |-> IF k < i THEN job[k] ELSE job[k + 1]]

\* run i of the handler goes through the next event (lines 123-243), and
\* returns after the last
Pass(i) ==
    /\ process = "running"
    /\ i \in OnStack \/ CallStackFree
    /\ Commit(job[i].wi, EventStep(Locals(job[i].wi), job[i].wi, job[i].ei,
                                    Event(job[i].wi, job[i].ei), job[i].m.data, job[i].msg))
    /\ job' = IF job[i].ei >= Len(Watch(job[i].wi).events) THEN Without(i)
              ELSE [job EXCEPT ![i].ei = @ + 1]
    /\ UNCHANGED <<cfg, now, nmsg, ntick, process, tk, net, msec, tpl>>

\* what warningConditionHandler leaves, written back
Fired(wi, r) ==
    /\ eventStatus' = [eventStatus EXCEPT ![wi] = r.es]
    /\ sent' = r.sent
    /\ outbox' = FanOut(outbox, r.sent, Len(sent) + 1)

\* a warning timer is due: the event loop runs warningConditionHandler
WarningTimeout(tm) ==
    /\ tm.kind = "warning"
    /\ tm.due <= now
    /\ process = "running"
    /\ CallStackFree
    /\ Fired(tm.wi, warningConditionHandler(eventStatus[tm.wi], sent, Watch(tm.wi).id, tm))
    /\ timers' = timers \ {tm}
    /\ evlog' = Append(evlog, [msg |-> 0, wi |-> tm.wi, ev |-> tm.ev, t |-> now,
                               outcome |-> "warning-fired", value |-> tm.warningValue])
    /\ UNCHANGED <<cfg, now, store, conditionState, nextTimer, clog, nmsg, ntick,
                   process, tk, net, msec, tpl, job>>

\* a reset timer is due: the event loop runs resetLastValueHandler
ResetTimeout(tm) ==
    /\ tm.kind = "reset"
    /\ tm.due <= now
    /\ process = "running"
    /\ CallStackFree
    /\ eventStatus' = [eventStatus EXCEPT
                         ![tm.wi] = resetLastValueHandler(@, Event(tm.wi, tm.ev), tm.statusKey)]
    /\ timers' = timers \ {tm}
    /\ evlog' = Append(evlog, [msg |-> 0, wi |-> tm.wi, ev |-> tm.ev, t |-> now,
                               outcome |-> "reset-fired", value |-> ""])
    /\ UNCHANGED <<cfg, now, store, conditionState, nextTimer, sent, clog, nmsg, ntick,
                   outbox, process, tk, net, msec, tpl, job>>

\* the earliest of a set of times, and t when there is none earlier
Earliest(t, dues) == IF \E d \in dues : d < t THEN CHOOSE d \in dues : \A e \in dues : d <= e ELSE t

\* time passes: by d seconds, or to the next timer's expiry when that is sooner;
\* a timer that is due runs before the clock moves on
Tick(d) ==
    /\ ntick < MaxTicks
    /\ CallStackFree
    /\ \A tm \in timers : tm.due > now
    /\ now' = Earliest(now + d, {tm.due : tm \in timers})
    /\ ntick' = ntick + 1
    /\ UNCHANGED <<cfg, store, eventStatus, conditionState, timers, nextTimer,
                   sent, evlog, clog, nmsg, outbox, process, tk, net, msec, tpl, job>>

\* the promise of send i (mailTransport.sendMail, twilioClient.messages.create)
\* is fulfilled
Accepted(i) ==
    /\ process = "running"
    /\ outbox[i].state = "pending"
    /\ outbox' = [outbox EXCEPT ![i].state = "delivered"]
    /\ UNCHANGED <<cfg, now, store, eventStatus, conditionState, timers, nextTimer,
                   sent, evlog, clog, nmsg, ntick, process, tk, net, msec, tpl, job>>

\* the promise of send i is rejected.  Nothing handles it (no callback, no
\* await, no catch, no "unhandledRejection" listener): node prints a warning
\* and goes on, or raises it as an uncaught exception and exits, by version
\* and --unhandled-rejections mode
Rejected(i) ==
    /\ process = "running"
    /\ outbox[i].state = "pending"
    /\ outbox' = [outbox EXCEPT ![i].state = "failed"]
    /\ process' \in {"running", "exited"}
    /\ UNCHANGED <<cfg, now, store, eventStatus, conditionState, timers, nextTimer,
                   sent, evlog, clog, nmsg, ntick, tk, net, msec, tpl, job>>

\* tokenize makes one pass of its loop
TokenizeStep ==
    /\ tk.phase = "tokenize"
    /\ tk.i < Len(tk.expr)
    /\ tk.iter < MaxIter
    /\ tk' = [TokenizeIteration(tk) EXCEPT !.iter = @ + 1]
    /\ UNCHANGED <<cfg, now, store, eventStatus, conditionState, timers, nextTimer,
                   sent, evlog, clog, nmsg, ntick, outbox, process, net, msec, tpl, job>>

\* tokenize returns; toRPN and evalRPN run on its tokens
Evaluate ==
    /\ tk.phase = "tokenize"
    /\ tk.i >= Len(tk.expr)
    /\ tk' = [tk EXCEPT !.phase = "done",
                        !.result = evaluateExpression(Classified(tk.out), tk.actual,
                                                      Obj([level |-> tk.actual]), store)]
    /\ UNCHANGED <<cfg, now, store, eventStatus, conditionState, timers, nextTimer,
                   sent, evlog, clog, nmsg, ntick, outbox, process, net, msec, tpl, job>>

\* the clock, in milliseconds since the program started
TimeMs == (now - cfg.epoch) * 1000 + msec

\* the clock set to t milliseconds since the program started
ClockAt(t) == now' = cfg.epoch + t \div 1000 /\ msec' = t % 1000

\* the client of watcher wi emits "connect"
Connected(wi) ==
    /\ process = "running"
    /\ CallStackFree
    /\ Client(net[wi]) = "connecting"
    /\ net' = [net EXCEPT ![wi] = onConnect(@, Watch(wi).topic, TimeMs)]
    /\ UNCHANGED <<cfg, now, store, eventStatus, conditionState, timers, nextTimer,
                   sent, evlog, clog, nmsg, ntick, outbox, process, tk, msec, tpl, job>>

\* the client of watcher wi emits "error" (while connecting or connected)
Errored(wi) ==
    /\ process = "running"
    /\ CallStackFree
    /\ Client(net[wi]) # "ended"
    /\ Failures(net[wi]) < MaxFailures
    /\ net' = [net EXCEPT ![wi] = onFailure(@, "error", TimeMs)]
    /\ UNCHANGED <<cfg, now, store, eventStatus, conditionState, timers, nextTimer,
                   sent, evlog, clog, nmsg, ntick, outbox, process, tk, msec, tpl, job>>

\* the client of watcher wi emits "disconnect" (the broker's DISCONNECT packet)
Disconnected(wi) ==
    /\ process = "running"
    /\ CallStackFree
    /\ Client(net[wi]) = "subscribed"
    /\ Failures(net[wi]) < MaxFailures
    /\ net' = [net EXCEPT ![wi] = onFailure(@, "disconnect", TimeMs)]
    /\ UNCHANGED <<cfg, now, store, eventStatus, conditionState, timers, nextTimer,
                   sent, evlog, clog, nmsg, ntick, outbox, process, tk, msec, tpl, job>>

\* the connection of watcher wi is lost without an event; the library
\* reconnects
Closed(wi) ==
    /\ process = "running"
    /\ Client(net[wi]) = "subscribed"
    /\ Failures(net[wi]) < MaxFailures
    /\ net' = [net EXCEPT ![wi] = onClose(@, TimeMs)]
    /\ UNCHANGED <<cfg, now, store, eventStatus, conditionState, timers, nextTimer,
                   sent, evlog, clog, nmsg, ntick, outbox, process, tk, msec, tpl, job>>

\* the pending run() timers of all watchers
Retries == UNION {net[wi].retry : wi \in Watchers(cfg)}

\* a run() that starts the watcher anew: buckets as initializeEvents leaves
\* them, no condition state, its timers dropped
Rerun_Fresh(wi) ==
    /\ process = "running"
    /\ CallStackFree
    /\ \E tm \in net[wi].retry :
          /\ \A o \in Retries : tm.due <= o.due
          /\ ClockAt(IF tm.due > TimeMs THEN tm.due ELSE TimeMs)
          /\ net' = [net EXCEPT ![wi] = run([@ EXCEPT !.retry = @ \ {tm}],
                                             IF tm.due > TimeMs THEN tm.due ELSE TimeMs)]
    /\ eventStatus' = [eventStatus EXCEPT ![wi] = InitialStatus(cfg, wi)]
    /\ conditionState' = [conditionState EXCEPT ![wi] = <<>>]
    /\ timers' = {t \in timers : t.wi # wi}
    /\ UNCHANGED <<cfg, store, nextTimer, sent, evlog, clog, nmsg, ntick, outbox, process,
                   tk, tpl, job>>

\* a run() timer of watcher wi expires, the clock having reached its time, and
\* the event loop calls run()
Rerun(wi) ==
    /\ process = "running"
    /\ CallStackFree
    /\ \E tm \in net[wi].retry :
          /\ \A o \in Retries : tm.due <= o.due
          /\ ClockAt(IF tm.due > TimeMs THEN tm.due ELSE TimeMs)
          /\ net' = [net EXCEPT ![wi] = run([@ EXCEPT !.retry = @ \ {tm}],
                                             IF tm.due > TimeMs THEN tm.due ELSE TimeMs)]
    /\ UNCHANGED <<cfg, store, eventStatus, conditionState, timers, nextTimer,
                   sent, evlog, clog, nmsg, ntick, outbox, process, tk, tpl, job>>

\* time passes: by d milliseconds, or to the next run() timer when that is sooner
Elapse(d) ==
    /\ process = "running"
    /\ ntick < MaxTicks
    /\ \A tm \in Retries : tm.due > TimeMs
    /\ ClockAt(Earliest(TimeMs + d, {tm.due : tm \in Retries}))
    /\ ntick' = ntick + 1
    /\ UNCHANGED <<cfg, store, eventStatus, conditionState, timers, nextTimer,
                   sent, evlog, clog, nmsg, outbox, process, tk, net, tpl, job>>

Deliver == \E wi \in Watchers(cfg) : \E m \in cfg.payloads[wi] : OnMessage(wi, m)
Advance == \E d \in cfg.deltas : Tick(d)
Warn == \E tm \in timers : WarningTimeout(tm)
Reset == \E tm \in timers : ResetTimeout(tm)
Settle == \E i \in 1..Len(outbox) : Accepted(i)
Fail == \E i \in 1..Len(outbox) : Rejected(i)
Connect == \E wi \in Watchers(cfg) : Connected(wi)
Fault == \E wi \in Watchers(cfg) : Errored(wi)
Disconnect == \E wi \in Watchers(cfg) : Disconnected(wi)
Close == \E wi \in Watchers(cfg) : Closed(wi)
Retry == \E wi \in Watchers(cfg) : Rerun(wi)
Wait == \E d \in cfg.deltas : Elapse(d)
Arrive == \E wi \in Watchers(cfg) : \E m \in cfg.payloads[wi] : Emitted(wi, m)
Run == \E i \in 1..Len(job) : Pass(i)

\* the door watcher: messages, the clock, the warning timer
InitDoor == InitWith(CfgDoor)
NextDoor == Deliver \/ Advance \/ Warn
SpecDoor == InitDoor /\ [][NextDoor]_vars

\* the stateful event with a reset: messages, the clock, the reset timer
InitReset == InitWith(CfgReset)
NextReset == Deliver \/ Advance \/ Reset
SpecReset == InitReset /\ [][NextReset]_vars

\* the dynamic disk watcher: messages and the clock
InitDisk == InitWith(CfgDisk)
NextDisk == Deliver \/ Advance
SpecDisk == InitDisk /\ [][NextDisk]_vars

\* the lock and door watchers: messages
InitDep == InitWith(CfgDep)
NextDep == Deliver
SpecDep == InitDep /\ [][NextDep]_vars

\* the dynamic events beside a stateful one: messages, the clock, the warning timer
InitDyn == InitWith(CfgDyn)
NextDyn == Deliver \/ Advance \/ Warn
SpecDyn == InitDyn /\ [][NextDyn]_vars

\* the events with activeHours, started around the ends of their ranges:
\* messages and the clock
InitHours == \E m \in StartMinutes : InitWith([CfgHours EXCEPT !.epoch = @ + m * 60 + 30])
NextHours == Deliver \/ Advance
SpecHours == InitHours /\ [][NextHours]_vars

\* the watcher with recipients: messages
InitNotify == InitWith(CfgNotify)
NextNotify == Deliver
SpecNotify == InitNotify /\ [][NextNotify]_vars

\* the watcher with a mail and an SMS recipient: messages, and the sends
\* settling
InitDelivery == InitWith(CfgDelivery)
NextDelivery == Deliver \/ Settle \/ Fail
SpecDelivery == InitDelivery /\ [][NextDelivery]_vars

\* EventUtils.evaluateExpression on one expression and one value: the passes
\* of the tokenizer, then the evaluation
InitExpr ==
    /\ Started(CfgExpr) /\ tpl = Blank /\ job = <<>>
    /\ \E e \in Expressions : \E a \in Actuals : tk = Start(e, a)
NextExpr == TokenizeStep \/ Evaluate
SpecExpr == InitExpr /\ [][NextExpr]_vars

\* Watchdog.run: run() of every watcher, once
Running(c) == [wi \in Watchers(c) |-> run([clients |-> <<>>, retry |-> {}, log |-> <<>>],
                                           0)]

\* the watcher from Watchdog.run on: the events of its client, the run()
\* timers, messages, the clock
InitNet ==
    /\ cfg = CfgNet /\ now = CfgNet.epoch /\ msec = 0
    /\ store = InitialStore(CfgNet)
    /\ eventStatus = [wi \in Watchers(CfgNet) |-> InitialStatus(CfgNet, wi)]
    /\ conditionState = [wi \in Watchers(CfgNet) |-> <<>>]
    /\ timers = {} /\ nextTimer = 1
    /\ sent = <<>> /\ evlog = <<>> /\ clog = <<>> /\ nmsg = 0 /\ ntick = 0
    /\ outbox = <<>> /\ process = "running" /\ tk = Idle /\ tpl = Blank /\ job = <<>>
    /\ net = Running(CfgNet)
NextNet == Connect \/ Fault \/ Disconnect \/ Close \/ Retry \/ Wait \/ Deliver
SpecNet == InitNet /\ [][NextNet]_vars

\* the event loop runs a timer that is due
FairNet == SpecNet /\ WF_vars(Rerun(1))

(***************************************************************************)
(* MQTTWatcherApp.start: the program from the call of app.start() on.      *)
(***************************************************************************)
\* the values of `type` a recipient is configured with
RecipientTypes == {"LOG", "MAIL", "SMS", "PUSH", "log", "Mail", "0", "fromString", "toString"}

\* one watcher and one list with a LOG recipient and recipient r
CfgStart(r) ==
    [name |-> "start",
     watchList |-> <<[id |-> "alarm", topic |-> "tank/level", events |-> <<
        [EventItem(Chars_level, Num(0), <<[Condition("Level 1") EXCEPT !.value = Num(1)]>>)
         EXCEPT !.dynamic = TRUE]>>]>>,
     notificationList |-> <<
        [id |-> "alarm", recipients |-> <<Recipient("LOG", "console", ""), r>>]>>,
     sms |-> TRUE,
     payloads |-> <<{Message(Obj([level |-> Num(1)]))}>>,
     deltas |-> {},
     epoch |-> 1700000000]

\* MQTTWatcherApp.start() for two arrays: setupNotifications, then
\* setupWatchers and watchdog.run().  Nothing catches what setupNotifications
\* throws, so the process ends before a watcher is constructed
start ==
    /\ process = "starting"
    /\ IF Throws(NotificationList(cfg))
       THEN /\ process' = "exited"
            /\ UNCHANGED <<store, eventStatus, conditionState, net>>
       ELSE /\ process' = "running"
            /\ store' = InitialStore(cfg)
            /\ eventStatus' = [wi \in Watchers(cfg) |-> InitialStatus(cfg, wi)]
            /\ conditionState' = [wi \in Watchers(cfg) |-> <<>>]
            /\ net' = Running(cfg)
    /\ UNCHANGED <<cfg, now, timers, nextTimer, sent, evlog, clog, nmsg, ntick, outbox,
                   tk, msec, tpl, job>>

\* the module is loaded, app.start() not yet called: no watcher exists
InitStart ==
    /\ \E type \in RecipientTypes : \E enabled \in BOOLEAN :
          cfg = CfgStart([Recipient(type, "ops@example.org", "") EXCEPT !.enabled = enabled])
    /\ now = 1700000000 /\ msec = 0
    /\ store = <<>> /\ eventStatus = <<>> /\ conditionState = <<>> /\ net = <<>>
    /\ timers = {} /\ nextTimer = 1
    /\ sent = <<>> /\ evlog = <<>> /\ clog = <<>> /\ nmsg = 0 /\ ntick = 0
    /\ outbox = <<>> /\ process = "starting" /\ tk = Idle /\ tpl = Blank /\ job = <<>>
NextStart == start \/ Connect \/ Deliver
SpecStart == InitStart /\ [][NextStart]_vars

\* three watchers, the second not enabled: stateful events without stateKey
\* (default true, a boolean), a stateful event with stateKey ${id} and a
\* dynamic event
CfgBoot ==
    [name |-> "boot",
     watchList |-> <<
        [id |-> "lock", topic |-> "zigbee2mqtt/Lock", enabled |-> TRUE, events |-> <<
            EventItem(Chars_contact, Bool(TRUE),
                <<[Condition("Unlocked") EXCEPT !.value = Bool(FALSE),
                                                !.warningThreshold = 10]>>),
            [EventItem(Chars_level, Num(0),
                <<[Condition("Level 5") EXCEPT !.value = Num(5), !.warningThreshold = 10]>>)
             EXCEPT !.stateKey = <<Ph(PhPath(Chars_id))>>],
            [EventItem(Chars_temp, Num(0), <<[Condition("Temp 5") EXCEPT !.value = Num(5)]>>)
             EXCEPT !.dynamic = TRUE]>>],
        [id |-> "spare", topic |-> "zigbee2mqtt/Spare", enabled |-> FALSE, events |-> <<
            EventItem(Chars_tamper, Bool(FALSE),
                <<[Condition("Tamper") EXCEPT !.value = Bool(TRUE)]>>)>>],
        [id |-> "door", topic |-> "zigbee2mqtt/Door", enabled |-> TRUE, events |-> <<
            EventItem(Chars_contact, Bool(TRUE),
                <<[Condition("Open") EXCEPT !.value = Bool(FALSE)]>>)>>]>>,
     payloads |-> <<{Message(Obj([id |-> Str("a"), contact |-> Bool(FALSE), level |-> Num(5),
                                  temp |-> Num(5)])),
                     Message(Obj([id |-> Str("b"), level |-> Num(5)])),
                     Message(Obj([id |-> Str("a"), contact |-> Bool(TRUE)]))},
                    {Message(Obj([tamper |-> Bool(TRUE)]))},
                    {Message(Obj([contact |-> Bool(FALSE)]))}>>,
     deltas |-> {},
     epoch |-> 1700000000]

\* the program from the load of the module on: start(), the clients'
\* "connect", messages
InitBoot ==
    /\ cfg = CfgBoot /\ now = CfgBoot.epoch /\ msec = 0
    /\ store = <<>> /\ eventStatus = <<>> /\ conditionState = <<>> /\ net = <<>>
    /\ timers = {} /\ nextTimer = 1
    /\ sent = <<>> /\ evlog = <<>> /\ clog = <<>> /\ nmsg = 0 /\ ntick = 0
    /\ outbox = <<>> /\ process = "starting" /\ tk = Idle /\ tpl = Blank /\ job = <<>>
NextBoot == start \/ Connect \/ Deliver
SpecBoot == InitBoot /\ [][NextBoot]_vars

(***************************************************************************)
(* Events behind each of the three gates.                                  *)
(***************************************************************************)
\* the lock watcher: "contact" is active from 08:00 to 17:00 and has a legacy
\* condition with a warningThreshold and a rising one; "level"
\* depends on (lock, contact) = false and has a rising and a legacy
\* condition; "tamper" is in one payload only.  The clock starts at 16:59:30
CfgGate ==
    [name |-> "gate",
     watchList |-> <<[id |-> "lock", events |-> <<
        [EventItem(Chars_contact, Bool(TRUE),
            <<[Condition("Unlocked") EXCEPT !.value = Bool(FALSE), !.warningThreshold = 60],
              [Condition("Unlocked (rising)") EXCEPT !.value = Bool(FALSE),
                                                     !.edge = "rising"]>>)
         EXCEPT !.activeHours = <<[from |-> Clock("0", "8", "0", "0"),
                                   to |-> Clock("1", "7", "0", "0")]>>],
        [EventItem(Chars_level, Num(0),
            <<[Condition("Level 5 (rising)") EXCEPT !.value = Num(5), !.edge = "rising"],
              [Condition("Level 5") EXCEPT !.value = Num(5), !.warningThreshold = 60]>>)
         EXCEPT !.dependencies = <<[path |-> Chars_lock_contact, state |-> Bool(FALSE)]>>],
        EventItem(Chars_tamper, Bool(FALSE),
            <<[Condition("Tamper") EXCEPT !.value = Bool(TRUE)]>>)>>]>>,
     payloads |-> <<{Message(Obj([contact |-> Bool(FALSE), level |-> Num(5)])),
                     Message(Obj([contact |-> Bool(TRUE), level |-> Num(5),
                                  tamper |-> Bool(TRUE)])),
                     Message(Obj([level |-> Num(0)])),
                     Message(Obj([contact |-> Bool(FALSE)]))}>>,
     deltas |-> {60},
     epoch |-> 1699920000 + 1019 * 60 + 30]

\* the gated watcher: messages, the clock, the warning timer
InitGate == InitWith(CfgGate)
NextGate == Deliver \/ Advance \/ Warn
SpecGate == InitGate /\ [][NextGate]_vars

(***************************************************************************)
(* A stateful event whose conditions take every way through the handler.   *)
(***************************************************************************)
\* one stateful event "level": a legacy condition with a warning (its text
\* names the source) and a reset, a rising condition and a condition under a
\* cooldown that declare both as well, a second legacy condition with both,
\* and a legacy condition with neither
CfgPump ==
    [name |-> "pump",
     watchList |-> <<[id |-> "pump", events |-> <<
        EventItem(Chars_level, Num(0),
            <<[Condition("Level 5") EXCEPT
                !.value = Num(5), !.warningThreshold = 10, !.reset = 10,
                !.message = <<Lit("Level "), Ph(PhStore("pump", "level"))>>,
                !.warningMessage = <<Lit("Level 5 at "), Ph(PhPath(Chars_id))>>],
              [Condition("Level 5 (rising)") EXCEPT
                !.value = Num(5), !.edge = "rising", !.warningThreshold = 10, !.reset = 10,
                !.key = <<Ph(PhPath(Chars_id))>>],
              [Condition("Level 5 (cooldown)") EXCEPT
                !.value = Num(5), !.cooldownSec = 10, !.warningThreshold = 10, !.reset = 10],
              [Condition("Level 5 (again)") EXCEPT
                !.value = Num(5), !.warningThreshold = 10, !.reset = 5],
              [Condition("Level 7") EXCEPT !.value = Num(7)]>>)>>]>>,
     payloads |-> <<{Message(Obj([id |-> Str("a"), level |-> Num(5)])),
                     Message(Obj([id |-> Str("b"), level |-> Num(5)])),
                     Message(Obj([id |-> Str("a"), level |-> Num(7)])),
                     Message(Obj([id |-> Str("a"), level |-> Num(3)]))}>>,
     deltas |-> {10},
     epoch |-> 1700000000]

\* the pump watcher: messages, the clock, both timers
InitPump == InitWith(CfgPump)
NextPump == Deliver \/ Advance \/ Warn \/ Reset
SpecPump == InitPump /\ [][NextPump]_vars

(***************************************************************************)
(* Conditions whose source key comes from each of its four sources.        *)
(***************************************************************************)
\* a dynamic event with a stateKey, one condition with a key template and one
\* without, and a dynamic event without stateKey; payloads with and without
\* id, tags.host and tags.path
CfgKey ==
    [name |-> "key",
     watchList |-> <<[id |-> "disk", events |-> <<
        [EventItem(Chars_level, Num(0),
            <<[Condition("Level 5 (host)") EXCEPT
                !.value = Num(5), !.key = <<Ph(PhPath(Chars_tags_host))>>],
              [Condition("Level 5") EXCEPT !.value = Num(5)]>>)
         EXCEPT !.dynamic = TRUE, !.stateKey = <<Ph(PhPath(Chars_id))>>],
        [EventItem(Chars_temp, Num(0), <<[Condition("Temp 5") EXCEPT !.value = Num(5)]>>)
         EXCEPT !.dynamic = TRUE]>>]>>,
     payloads |-> <<{Message(Obj([id |-> Str("a"), level |-> Num(5), temp |-> Num(5),
                                  tags |-> Obj([host |-> Str("srv"), path |-> Str("/")])])),
                     Message(Obj([level |-> Num(5), temp |-> Num(5),
                                  tags |-> Obj([host |-> Str("srv")])])),
                     Message(Obj([id |-> Str("a"), level |-> Num(5), temp |-> Num(5),
                                  tags |-> Obj([path |-> Str("/")])])),
                     Message(Obj([level |-> Num(5), temp |-> Num(5)]))}>>,
     deltas |-> {},
     epoch |-> 1700000000]

\* the keyed watcher: messages
InitKey == InitWith(CfgKey)
NextKey == Deliver
SpecKey == InitKey /\ [][NextKey]_vars

(***************************************************************************)
(* Stateful events with and without a stateKey.                            *)
(***************************************************************************)
\* a stateful event "level" with stateKey ${id}, whose legacy condition has a
\* warningThreshold and a reset, and a stateful event "temp" without
\* stateKey; payloads of the sources a and b
CfgZone ==
    [name |-> "zone",
     watchList |-> <<[id |-> "zone", events |-> <<
        [EventItem(Chars_level, Num(0), <<[TimedCondition("Level 5") EXCEPT !.reset = 5]>>)
         EXCEPT !.stateKey = <<Ph(PhPath(Chars_id))>>],
        EventItem(Chars_temp, Num(0), <<[Condition("Temp 5") EXCEPT !.value = Num(5)]>>)>>]>>,
     payloads |-> <<{Message(Obj([id |-> Str("a"), level |-> Num(5)])),
                     Message(Obj([id |-> Str("b"), level |-> Num(5)])),
                     Message(Obj([id |-> Str("a"), level |-> Num(7), temp |-> Num(5)]))}>>,
     deltas |-> {5},
     epoch |-> 1700000000]

\* the zone watcher: messages, the clock, both timers
InitZone == InitWith(CfgZone)
NextZone == Deliver \/ Advance \/ Warn \/ Reset
SpecZone == InitZone /\ [][NextZone]_vars

\* a stateful event "level" whose legacy condition has a warningThreshold
\* and a reset, and a second event "temp" after it
CfgLoop ==
    [name |-> "loop",
     watchList |-> <<[id |-> "loop", topic |-> "zigbee2mqtt/Loop", events |-> <<
        EventItem(Chars_level, Num(0),
            <<[Condition("Level 5") EXCEPT !.value = Num(5), !.warningThreshold = 5,
                                           !.reset = 5]>>),
        EventItem(Chars_temp, Num(0), <<[Condition("Temp 5") EXCEPT !.value = Num(5)]>>)>>]>>,
     payloads |-> <<{Message(Obj([level |-> Num(5), temp |-> Num(5)])),
                     Message(Obj([level |-> Num(7)])),
                     Message(Null)}>>,
     deltas |-> {5},
     epoch |-> 1700000000]

\* the watcher on the event loop: messages handled event by event, the
\* clock, both timers, a disconnect and the run() timer after it
InitLoop == InitWith(CfgLoop)
NextLoop == Arrive \/ Run \/ Advance \/ Warn \/ Reset \/ Disconnect \/ Retry
SpecLoop == InitLoop /\ [][NextLoop]_vars

\* a stateful event "level" with a legacy condition that has a
\* warningThreshold and a reset, and a rising condition beside it
CfgLink ==
    [name |-> "link",
     watchList |-> <<[id |-> "link", topic |-> "zigbee2mqtt/Link", events |-> <<
        EventItem(Chars_level, Num(0),
            <<[Condition("Level 5") EXCEPT !.value = Num(5), !.warningThreshold = 5,
                                           !.reset = 10],
              [Condition("Level 5 (rising)") EXCEPT !.value = Num(5),
                                                    !.edge = "rising"]>>)>>]>>,
     payloads |-> <<{Message(Obj([level |-> Num(5)]))}>>,
     deltas |-> {5},
     epoch |-> 1700000000]

\* the watcher across failures of its transport: messages, the clock, both
\* timers, "disconnect", the run() timer and "connect"
InitLink == InitWith(CfgLink)
NextLink == Deliver \/ Advance \/ Warn \/ Reset \/ Disconnect \/ Retry \/ Connect
SpecLink == InitLink /\ [][NextLink]_vars

(***************************************************************************)
(* EventUtils.interpolate, step by step: the callback of template.replace  *)
(* for one part after the other, and the loop of resolvePlaceholder over   *)
(* the helpers of a chain.                                                 *)
(***************************************************************************)
Chars_percent ==
    <<"f", "i", "e", "l", "d", "s", ".", "u", "s", "e", "d", "_", "p", "e", "r", "c", "e",
      "n", "t", ":", "t", "o", "F", "i", "x", "e", "d", "(", "1", ")", ":", "p", "c", "t",
      "(", ")">>
Chars_host_upper ==
    <<"t", "a", "g", "s", ".", "h", "o", "s", "t", ":", "u", "p", "p", "e", "r">>
Chars_path_upper ==
    <<"t", "a", "g", "s", ".", "p", "a", "t", "h", ":", "u", "p", "p", "e", "r">>
Chars_round_fixed ==
    <<"f", "i", "e", "l", "d", "s", ".", "u", "s", "e", "d", "_", "p", "e", "r", "c", "e",
      "n", "t", ":", "r", "o", "u", "n", "d", "(", "0", ")", ":", "t", "o", "F", "i", "x",
      "e", "d", "(", "1", ")">>
Chars_fixed_round ==
    <<"f", "i", "e", "l", "d", "s", ".", "u", "s", "e", "d", "_", "p", "e", "r", "c", "e",
      "n", "t", ":", "t", "o", "F", "i", "x", "e", "d", "(", "1", ")", ":", "r", "o", "u",
      "n", "d", "(", "0", ")">>
Chars_pct1 ==
    <<" ", "f", "i", "e", "l", "d", "s", ".", "u", "s", "e", "d", "_", "p", "e", "r", "c",
      "e", "n", "t", " ", ":", " ", "p", "c", "t", "(", "1", ")", " ">>
Chars_shout ==
    <<"t", "a", "g", "s", ".", "h", "o", "s", "t", ":", "s", "h", "o", "u", "t", ":", "c",
      "a", "t", "(", "'", "!", "'", ",", " ", "2", ")", ":", "l", "e", "n">>
Chars_free ==
    <<"f", "i", "e", "l", "d", "s", ".", "f", "r", "e", "e", ":", "t", "o", "F", "i", "x",
      "e", "d", "(", "1", ")">>

\* the message of scenario S2
Template_S2 ==
    <<Lit("ALERT "), Ph(PhSpec(Chars_tags_path)), Lit(" "), Ph(PhSpec(Chars_percent)),
      Lit(" on "), Ph(PhSpec(Chars_host_upper))>>

\* the message of the README and the example of docs/templating.md
Template_Readme ==
    <<Lit("ALERT: "), Ph(PhSpec(Chars_tags_path)), Lit(" "), Ph(PhSpec(Chars_percent)),
      Lit(" used on "), Ph(PhSpec(Chars_host_upper))>>
Template_Doc ==
    <<Lit("Disk "), Ph(PhSpec(Chars_path_upper)), Lit(" on "), Ph(PhSpec(Chars_tags_host)),
      Lit(" at "), Ph(PhSpec(Chars_percent))>>

\* two chains of the same helpers in either order, a helper with an
\* argument and blanks, an unknown helper, a path the payload does not have
Template_RoundFixed == <<Ph(PhSpec(Chars_round_fixed))>>
Template_FixedRound == <<Ph(PhSpec(Chars_fixed_round))>>
Template_Pct1 == <<Lit("at "), Ph(PhSpec(Chars_pct1))>>
Template_Other == <<Ph(PhSpec(Chars_shout)), Lit("|"), Ph(PhSpec(Chars_free)), Lit("|")>>

Templates ==
    {Template_S2, Template_Readme, Template_Doc, Template_RoundFixed, Template_FixedRound,
     Template_Pct1, Template_Other}

\* the payload of scenario S2
Payload_S2 ==
    Obj([fields |-> Obj([used_percent |-> Milli(91234)]),
         tags |-> Obj([host |-> Str("srv"), path |-> Str("/")])])

\* the payloads the templates are interpolated against
TemplatePayloads ==
    {Payload_S2,
     Obj([fields |-> Obj([used_percent |-> Num(95)]),
          tags |-> Obj([host |-> Str("Db-1"), path |-> Str("/var")])]),
     Obj([fields |-> Obj([used_percent |-> Milli(91500)]),
          tags |-> Obj([host |-> Str("srv"), path |-> Str("/")])]),
     Obj([fields |-> Obj([used_percent |-> Str("91.2")]), tags |-> Obj([host |-> Str("srv")])])}

\* interpolate(template, payload) at its first placeholder or literal
Begin(template, payload) == [Blank EXCEPT !.phase = "part", !.template = template,
                                          !.payload = payload]

\* the interpolation goes on with the part after p
Moved(t) == [t EXCEPT !.p = @ + 1, !.phase = IF t.p >= Len(t.template) THEN "done" ELSE "part"]

\* the callback of template.replace starts on part p: a literal stretch is
\* kept; for a placeholder resolvePlaceholder splits the text and looks up
\* the head (a store entry is read at once)
SubstituteFrom(t, part, tokens) ==
    IF part.lit THEN Moved([t EXCEPT !.result = @ \o part.s])
    ELSE IF tokens = <<>> \/ (Len(tokens[1]) >= 6 /\ SubSeq(tokens[1], 1, 6) = <<"s", "t", "o", "r", "e", ".">>)
    THEN Moved([t EXCEPT !.result = @ \o Replacement(resolvePlaceholder(part.ph, t.payload,
                                                                        Undef, store))])
    ELSE [t EXCEPT !.phase = "chain", !.tokens = tokens, !.i = 2,
                   !.v = Lift(HeadValue(Trim(tokens[1]), t.payload, Undef))]

Substitute ==
    /\ tpl.phase = "part"
    /\ tpl' = SubstituteFrom(tpl, tpl.template[tpl.p],
                             IF tpl.template[tpl.p].lit THEN <<>>
                             ELSE splitByColonOutsideParens(Trim(tpl.template[tpl.p].ph.path)))
    /\ UNCHANGED <<cfg, now, store, eventStatus, conditionState, timers, nextTimer,
                   sent, evlog, clog, nmsg, ntick, outbox, process, tk, net, msec, job>>

\* one pass of the loop of resolvePlaceholder (lines 107-109)
HelperStep ==
    /\ tpl.phase = "chain"
    /\ tpl.i <= Len(tpl.tokens)
    /\ tpl' = [tpl EXCEPT !.v = applyHelper(Trim(tpl.tokens[tpl.i]), tpl.v),
                          !.i = @ + 1,
                          !.applied = Append(@, Text(Trim(tpl.tokens[tpl.i])))]
    /\ UNCHANGED <<cfg, now, store, eventStatus, conditionState, timers, nextTimer,
                   sent, evlog, clog, nmsg, ntick, outbox, process, tk, net, msec, job>>

\* resolvePlaceholder returns; the callback returns the replacement
Replace ==
    /\ tpl.phase = "chain"
    /\ tpl.i > Len(tpl.tokens)
    /\ tpl' = Moved([tpl EXCEPT !.result = @ \o Replacement(Lower(tpl.v))])
    /\ UNCHANGED <<cfg, now, store, eventStatus, conditionState, timers, nextTimer,
                   sent, evlog, clog, nmsg, ntick, outbox, process, tk, net, msec, job>>

\* templates interpolated by hand
InitTemplate ==
    /\ Started(CfgExpr) /\ tk = Idle /\ job = <<>>
    /\ \E t \in Templates : \E d \in TemplatePayloads : tpl = Begin(t, d)
NextTemplate == Substitute \/ HelperStep \/ Replace
SpecTemplate == InitTemplate /\ [][NextTemplate]_vars

\* any of the configurations
Init == \E c \in {CfgDoor, CfgReset, CfgDisk, CfgDep} : InitWith(c)
Next == Deliver \/ Advance \/ Warn \/ Reset
Spec == Init /\ [][Next]_vars

(***************************************************************************)
(* Properties.  clog holds one record per evaluation of a condition, in    *)
(* the order the handler made them; evlog one per event of a message and   *)
(* one per timer callback; sent the calls of sendNotifications.            *)
(***************************************************************************)
\* the condition an evaluation record is about
CondOf(r) == Event(r.wi, r.ev).conditions[r.ci]
IsRising(r) == CondOf(r).edge = "rising"
IsLevel(r) == CondOf(r).edge \in {"", "level"}

\* evaluations i < j of one condition under one key, none for that key between
Consecutive(i, j) ==
    /\ i < j
    /\ clog[i].key = clog[j].key
    /\ \A k \in (i + 1)..(j - 1) : clog[k].key # clog[i].key

\* evaluation j is the first one under its key
FirstForKey(j) == \A i \in 1..(j - 1) : clog[i].key # clog[j].key

\* the smallest n with n * c >= t
CeilDiv(t, c) == (t + c - 1) \div c

\* window lengths T, in seconds, around the cooldowns of the configurations
WindowLengths == {60, 119, 120, 121, 240, 1900}

\* an evaluation of a level condition with a cooldown that the gate allowed
AllowedUnderCooldown(i) ==
    IsLevel(clog[i]) /\ CondOf(clog[i]).cooldownSec > 0 /\ clog[i].allowed

\* C1: for a level condition with cooldownSec = C > 0 and a fixed key, any two
\* notifications the edge/cooldown gate allows are at least C seconds apart,
\* so a half-open window of length T holds at most ceil(T / C) of them.
C1_CooldownSpacing ==
    \A i \in 1..Len(clog) :
        AllowedUnderCooldown(i) =>
            /\ \A j \in (i + 1)..Len(clog) :
                  (AllowedUnderCooldown(j) /\ clog[j].key = clog[i].key)
                  => clog[j].t - clog[i].t >= CondOf(clog[i]).cooldownSec
            /\ \A T \in WindowLengths :
                  Cardinality({j \in 1..Len(clog) :
                                 /\ AllowedUnderCooldown(j)
                                 /\ clog[j].key = clog[i].key
                                 /\ clog[i].t <= clog[j].t
                                 /\ clog[j].t < clog[i].t + T})
                  <= CeilDiv(T, CondOf(clog[i]).cooldownSec)

\* a notification, a match held back 60 s later, and a notification exactly
\* one cooldown after the first
C1_Witness ==
    \E i, j, k \in 1..Len(clog) :
        /\ i < j /\ j < k
        /\ clog[i].key = clog[j].key /\ clog[j].key = clog[k].key
        /\ AllowedUnderCooldown(i) /\ AllowedUnderCooldown(k)
        /\ IsLevel(clog[j]) /\ clog[j].matched /\ ~clog[j].allowed
        /\ clog[k].t - clog[i].t = CondOf(clog[i]).cooldownSec

\* C2: under a rising condition without cooldown, a match whose key was last
\* evaluated as a non-match, or never evaluated, always notifies.
C2_RisingNotifies ==
    \A j \in 1..Len(clog) :
        (/\ IsRising(clog[j]) /\ CondOf(clog[j]).cooldownSec = 0
         /\ clog[j].matched
         /\ \/ FirstForKey(j)
            \/ \E i \in 1..(j - 1) : Consecutive(i, j) /\ ~clog[i].matched)
        => /\ clog[j].notified
           /\ \E n \in 1..Len(sent) :
                 /\ sent[n].msg = clog[j].msg /\ sent[n].ev = clog[j].ev
                 /\ sent[n].ci = clog[j].ci /\ sent[n].kind = "condition"

\* a first match, a non-match and a match again, all under one key
C2_Witness ==
    \E i, j, k \in 1..Len(clog) :
        /\ IsRising(clog[k]) /\ CondOf(clog[k]).cooldownSec = 0
        /\ FirstForKey(i) /\ Consecutive(i, j) /\ Consecutive(j, k)
        /\ clog[i].matched /\ ~clog[j].matched /\ clog[k].matched
        /\ clog[i].notified /\ clog[k].notified

\* C3: under a rising condition, of two consecutive matching evaluations for
\* one key with no non-match between them, the second never notifies.
C3_RisingSuppresses ==
    \A i, j \in 1..Len(clog) :
        (/\ IsRising(clog[j])
         /\ Consecutive(i, j)
         /\ clog[i].matched /\ clog[j].matched)
        => /\ ~clog[j].notified
           /\ \A n \in 1..Len(sent) :
                 ~(/\ sent[n].msg = clog[j].msg /\ sent[n].ev = clog[j].ev
                   /\ sent[n].ci = clog[j].ci)

\* two matches in a row under one key of the rising condition without a
\* cooldown, the first notified, more than a cooldown of the other apart
C3_Witness ==
    \E i, j \in 1..Len(clog) :
        /\ IsRising(clog[j]) /\ CondOf(clog[j]).cooldownSec = 0
        /\ Consecutive(i, j)
        /\ clog[i].matched /\ clog[j].matched /\ clog[i].notified
        /\ clog[j].t - clog[i].t >= 1800

\* the evaluations of condition ci of event ei of watcher wi under key k
EvaluationsOf(wi, ei, ci, k) ==
    SelectSeq(clog, LAMBDA r : r.wi = wi /\ r.ev = ei /\ r.ci = ci /\ r.key = k)

\* the key of the README's disk condition for host srv and path /
SrvRootKey == "diskroot::fields.used_percent::0::srv:/"

\* scenario S2: for one key, a match, a match 60 s later, a non-match, and a
\* match 1900 s after the first
S2_Sequence(evs) ==
    /\ Len(evs) = 4
    /\ evs[1].matched /\ evs[2].matched /\ ~evs[3].matched /\ evs[4].matched
    /\ evs[2].t = evs[1].t + 60
    /\ evs[4].t = evs[1].t + 1900

\* the notifications of condition ci of event ei of watcher wi for the messages of evs
NotificationsFor(wi, ei, ci, evs) ==
    SelectSeq(sent, LAMBDA n : /\ n.listId = Watch(wi).id /\ n.ev = ei /\ n.ci = ci
                               /\ \E x \in 1..Len(evs) : evs[x].msg = n.msg)

\* C4: scenario S2 (dynamic event, rising edge, cooldown 1800, key template):
\* notifications are sent for the first and the fourth evaluation only.
C4_ScenarioS2 ==
    S2_Sequence(EvaluationsOf(1, 1, 1, SrvRootKey)) =>
        /\ EvaluationsOf(1, 1, 1, SrvRootKey)[1].notified
        /\ ~EvaluationsOf(1, 1, 1, SrvRootKey)[2].notified
        /\ ~EvaluationsOf(1, 1, 1, SrvRootKey)[3].notified
        /\ EvaluationsOf(1, 1, 1, SrvRootKey)[4].notified
        /\ Len(NotificationsFor(1, 1, 1, EvaluationsOf(1, 1, 1, SrvRootKey))) = 2
        /\ NotificationsFor(1, 1, 1, EvaluationsOf(1, 1, 1, SrvRootKey))[1].msg
              = EvaluationsOf(1, 1, 1, SrvRootKey)[1].msg
        /\ NotificationsFor(1, 1, 1, EvaluationsOf(1, 1, 1, SrvRootKey))[2].msg
              = EvaluationsOf(1, 1, 1, SrvRootKey)[4].msg

\* the four evaluations of S2 have been made under the README's condition
C4_Witness ==
    /\ cfg.name = "disk"
    /\ S2_Sequence(EvaluationsOf(1, 1, 1, SrvRootKey))
    /\ CondOf(EvaluationsOf(1, 1, 1, SrvRootKey)[1]).cooldownSec = 1800
    /\ IsRising(EvaluationsOf(1, 1, 1, SrvRootKey)[1])

\* a matching evaluation of a condition without edge or cooldown on a stateful event
LegacyCase(r) ==
    /\ r.matched
    /\ ~Event(r.wi, r.ev).dynamic
    /\ CondOf(r).edge # "rising"
    /\ CondOf(r).cooldownSec <= 0

\* where in evlog the event of evaluation r's message is
EvIdx(r) == CHOOSE x \in 1..Len(evlog) : evlog[x].msg = r.msg /\ evlog[x].ev = r.ev

\* a timer callback of the given kind ran for r's event between positions x and y of evlog
FiredBetween(kind, r, x, y) ==
    \E z \in (x + 1)..(y - 1) :
        evlog[z].outcome = kind /\ evlog[z].wi = r.wi /\ evlog[z].ev = r.ev

\* the bucket of r's event holds, in this state
BucketValue(r) == eventStatus[r.wi][r.statusKey].lastValue

\* a notification of evaluation r
NotificationOf(r, n) ==
    /\ n.kind = "condition" /\ n.msg = r.msg /\ n.ev = r.ev /\ n.ci = r.ci
    /\ n.listId = Watch(r.wi).id

\* the legacy path sends iff the bucket's value before the message differs
C5_SendIffChanged ==
    \A x \in (Len(clog) + 1)..Len(clog') :
        LegacyCase(clog'[x]) =>
            /\ clog'[x].notified <=> (BucketValue(clog'[x]) # clog'[x].value)
            /\ clog'[x].notified <=>
                  \E n \in (Len(sent) + 1)..Len(sent') : NotificationOf(clog'[x], sent'[n])

\* the same value delivered again, no reset in between, is not notified again
C5_NoSecond ==
    \A i, j \in 1..Len(clog) :
        (/\ Consecutive(i, j)
         /\ LegacyCase(clog[i]) /\ LegacyCase(clog[j])
         /\ clog[i].value = clog[j].value
         /\ ~FiredBetween("reset-fired", clog[i], EvIdx(clog[i]), EvIdx(clog[j])))
        => ~clog[j].notified

\* C5: on the legacy stateful path a matching evaluation sends a notification
\* iff the bucket's lastValue before the message differs from the stringified
\* current value; an identical payload delivered again, with no reset firing
\* in between, gives no second notification.
C5_LegacyDedupe == [][C5_SendIffChanged /\ C5_NoSecond']_vars

\* a value notified, then delivered again and not notified
C5_Witness ==
    \E i, j \in 1..Len(clog) :
        /\ Consecutive(i, j)
        /\ LegacyCase(clog[i]) /\ LegacyCase(clog[j])
        /\ clog[i].value = clog[j].value
        /\ ~FiredBetween("reset-fired", clog[i], EvIdx(clog[i]), EvIdx(clog[j]))
        /\ clog[i].notified /\ ~clog[j].notified

\* evaluation i is the first match of a legacy condition with a warningThreshold
FirstMatchWithWarning(i) ==
    /\ LegacyCase(clog[i])
    /\ CondOf(clog[i]).warningThreshold > 0
    /\ \A h \in 1..(i - 1) : clog[h].key = clog[i].key => ~clog[h].matched

\* the positions of evlog where a warning callback ran for r's event
WarningRuns(r) ==
    {x \in 1..Len(evlog) :
        evlog[x].outcome = "warning-fired" /\ evlog[x].wi = r.wi /\ evlog[x].ev = r.ev}

\* every message evaluated for r's event after r's and before position y carried r's value
ValueStays(r, y) ==
    \A x \in (EvIdx(r) + 1)..(y - 1) :
        (evlog[x].wi = r.wi /\ evlog[x].ev = r.ev /\ evlog[x].outcome = "evaluated")
        => evlog[x].value = r.value

\* the warnings sent for r's condition
WarningsOf(r) ==
    SelectSeq(sent, LAMBDA n : /\ n.kind = "warning" /\ n.listId = Watch(r.wi).id
                               /\ n.ev = r.ev /\ n.ci = r.ci)

\* the first warning callback that ran for r's event
FirstRun(r) == CHOOSE x \in WarningRuns(r) : \A y \in WarningRuns(r) : x <= y

\* the warning of r's condition is pending, due W seconds after r
WarningPending(r) ==
    /\ WarningsOf(r) = <<>>
    /\ now <= r.t + CondOf(r).warningThreshold
    /\ \E tm \in timers :
          /\ tm.kind = "warning" /\ tm.wi = r.wi /\ tm.ev = r.ev /\ tm.ci = r.ci
          /\ tm.due = r.t + CondOf(r).warningThreshold

\* the warning of r's condition went out once, W seconds after r
WarnedOnce(r) ==
    /\ Len(WarningsOf(r)) = 1
    /\ WarningsOf(r)[1].t = r.t + CondOf(r).warningThreshold
    /\ WarningsOf(r)[1].text = RawText(CondOf(r).warningMessage)
    /\ WarningsOf(r)[1].severity =
          (IF CondOf(r).warningSeverity = "" THEN "warning" ELSE CondOf(r).warningSeverity)

\* C6: scenario S1: a legacy condition with warningThreshold W > 0 matches a
\* value v and the bucket's value stays v for W seconds: the warningMessage is
\* sent exactly once, at warningSeverity (default warning), W seconds after the
\* first matching message.
C6_ScenarioS1 ==
    \A i \in 1..Len(clog) :
        FirstMatchWithWarning(i) =>
            IF WarningRuns(clog[i]) = {}
            THEN WarningPending(clog[i])
            ELSE /\ evlog[FirstRun(clog[i])].t = clog[i].t + CondOf(clog[i]).warningThreshold
                 /\ ValueStays(clog[i], FirstRun(clog[i])) => WarnedOnce(clog[i])

\* the value was delivered again while the timer ran, the warning went out, and
\* the value was delivered once more after it
C6_Witness ==
    \E i \in 1..Len(clog) :
        /\ FirstMatchWithWarning(i)
        /\ WarningRuns(clog[i]) # {}
        /\ ValueStays(clog[i], FirstRun(clog[i]))
        /\ WarnedOnce(clog[i])
        /\ \E x \in (EvIdx(clog[i]) + 1)..(FirstRun(clog[i]) - 1) :
              evlog[x].outcome = "evaluated" /\ evlog[x].value = clog[i].value
        /\ \E x \in (FirstRun(clog[i]) + 1)..Len(evlog) :
              evlog[x].outcome = "evaluated" /\ evlog[x].value = clog[i].value

\* the next position after x, up to y, that is a message evaluated for r's event, or y
NextEvaluated(r, x, y) ==
    CHOOSE z \in (x + 1)..y :
        /\ z = y \/ (evlog[z].wi = r.wi /\ evlog[z].ev = r.ev /\ evlog[z].outcome = "evaluated")
        /\ \A w \in (x + 1)..(z - 1) :
              ~(evlog[w].wi = r.wi /\ evlog[w].ev = r.ev /\ evlog[w].outcome = "evaluated")

\* between r's message and position y the bucket held another value than r's for some time
HeldAnother(r, y) ==
    \E x \in (EvIdx(r) + 1)..(y - 1) :
        /\ evlog[x].wi = r.wi /\ evlog[x].ev = r.ev /\ evlog[x].outcome = "evaluated"
        /\ evlog[x].value # r.value
        /\ evlog[NextEvaluated(r, x, y)].t > evlog[x].t

\* C7: a warning is sent only if the bucket's value equals the armed
\* warningValue continuously for at least warningThreshold seconds: when a
\* warning has gone out, the bucket held no other value at any time between
\* the arming of the timer and its expiry.
C7_WarningOnlyIfContinuous ==
    \A i \in 1..Len(clog) :
        (FirstMatchWithWarning(i) /\ WarningsOf(clog[i]) # <<>>)
        => ~HeldAnother(clog[i], FirstRun(clog[i]))

\* the latest matching evaluation of r's condition made before position x of evlog
LastMatchBefore(r, x) ==
    /\ r.matched
    /\ EvIdx(r) < x
    /\ \A j \in 1..Len(clog) :
          (clog[j].key = r.key /\ clog[j].matched /\ EvIdx(clog[j]) < x)
          => EvIdx(clog[j]) <= EvIdx(r)

\* a legacy condition with a reset
HasReset(r) == LegacyCase(r) /\ CondOf(r).reset > 0

\* the positions of evlog where a reset callback ran for r's event
ResetRuns(r) ==
    {x \in 1..Len(evlog) :
        evlog[x].outcome = "reset-fired" /\ evlog[x].wi = r.wi /\ evlog[x].ev = r.ev}

\* position y of evlog is the first message after x evaluated for r's event with r's value
NextWithValue(r, x, y) ==
    /\ x < y
    /\ evlog[y].wi = r.wi /\ evlog[y].ev = r.ev
    /\ evlog[y].outcome = "evaluated" /\ evlog[y].value = r.value
    /\ \A z \in (x + 1)..(y - 1) :
          ~(/\ evlog[z].wi = r.wi /\ evlog[z].ev = r.ev
            /\ evlog[z].outcome = "evaluated" /\ evlog[z].value = r.value)

\* the evaluation of r's condition for the message at position y of evlog was notified
NotifiedAt(r, y) ==
    \E j \in 1..Len(clog) :
        /\ clog[j].key = r.key /\ clog[j].msg = evlog[y].msg
        /\ clog[j].notified
        /\ \E n \in 1..Len(sent) : NotificationOf(clog[j], sent[n])

\* C8: scenario S5: after a match of a legacy condition with reset R > 0, if no
\* matching message arrives for R seconds the bucket's lastValue becomes
\* String(event.default), and the next message carrying the previously matched
\* value is notified, not held back as a duplicate.
C8_ScenarioS5 ==
    \A i \in 1..Len(clog) :
        HasReset(clog[i]) =>
            /\ LastMatchBefore(clog[i], Len(evlog) + 1) =>
                  \/ \E tm \in timers :
                        /\ tm.kind = "reset" /\ tm.wi = clog[i].wi /\ tm.ev = clog[i].ev
                        /\ tm.due = clog[i].t + CondOf(clog[i]).reset
                        /\ now <= tm.due
                  \/ \E x \in ResetRuns(clog[i]) : EvIdx(clog[i]) < x
            /\ \A x \in ResetRuns(clog[i]) :
                  LastMatchBefore(clog[i], x) =>
                     /\ evlog[x].t = clog[i].t + CondOf(clog[i]).reset
                     /\ x = Len(evlog) =>
                           BucketValue(clog[i]) = String(Event(clog[i].wi, clog[i].ev).default)
                     /\ \A y \in 1..Len(evlog) :
                           NextWithValue(clog[i], x, y) => NotifiedAt(clog[i], y)

\* a value notified, delivered again and held back, the reset callback run R
\* seconds after that, and the value then notified again
C8_Witness ==
    \E i, j, k \in 1..Len(clog) :
        /\ Consecutive(i, j) /\ Consecutive(j, k)
        /\ HasReset(clog[i])
        /\ clog[i].matched /\ clog[j].matched /\ clog[k].matched
        /\ clog[i].value = clog[j].value /\ clog[j].value = clog[k].value
        /\ clog[i].notified /\ ~clog[j].notified /\ clog[k].notified
        /\ \E x \in ResetRuns(clog[j]) :
              /\ EvIdx(clog[j]) < x /\ x < EvIdx(clog[k])
              /\ evlog[x].t = clog[j].t + CondOf(clog[j]).reset

\* the entry of evlog is an event of a message that reached the dependencies gate
ReachedGate(e) == e.msg # 0 /\ e.ev # 0 /\ e.outcome \in {"gated", "evaluated"}

\* the number of dots of a dependency path
Dots(path) == Cardinality({x \in 1..Len(path) : path[x] = "."})

\* the event has a dependency whose path is not of the form <watchId>.<subject>
HasMalformedDependency(event) ==
    \E d \in 1..Len(event.dependencies) : Dots(event.dependencies[d].path) # 1

\* the event depends on (lock, contact) being true and on nothing else
DependsOnLock(event) ==
    /\ Len(event.dependencies) = 1
    /\ event.dependencies[1].path = Chars_lock_contact
    /\ event.dependencies[1].state = Bool(TRUE)

\* what normalises to the boolean true: true itself and the string "true" in any case
MeansTrue(v) == v = Bool(TRUE) \/ (v.t = "string" /\ v.s \in {"true", "TRUE", "True"})

\* something was sent or evaluated for the event of entry e
ActedOn(e, out, evals) ==
    \/ \E n \in 1..Len(out) : out[n].msg = e.msg /\ out[n].ev = e.ev
    \/ \E j \in 1..Len(evals) : evals[j].msg = e.msg /\ evals[j].ev = e.ev

\* an event that depends on (lock, contact) = true passes the gate iff the
\* store entry, as it is when the message arrives, normalises to true
C9_GateStep ==
    \A x \in (Len(evlog) + 1)..Len(evlog') :
        (ReachedGate(evlog'[x]) /\ DependsOnLock(Event(evlog'[x].wi, evlog'[x].ev))) =>
            /\ evlog'[x].outcome = "evaluated" <=> MeansTrue(StoreGet(store, "lock", "contact"))
            /\ evlog'[x].outcome = "gated" => ~ActedOn(evlog'[x], sent', clog')
            /\ evlog'[x].outcome = "evaluated" =>
                  \E j \in 1..Len(clog') :
                      clog'[j].msg = evlog'[x].msg /\ clog'[j].ev = evlog'[x].ev

\* C9: an event with dependencies goes on iff for every dependency
\* normalize(store[watchId][subject]) === normalize(dep.state); after another
\* watcher has written a value that does not match, the next payload of the
\* dependent event is gated out and sends nothing.
C9_DependenciesGate == [][C9_GateStep]_vars

\* the dependent event went on, the other watcher wrote a value that does not
\* normalise to true, and the next payload of the dependent event was gated
C9_Witness ==
    \E x, y, z \in 1..Len(evlog) :
        /\ x < y /\ y < z
        /\ DependsOnLock(Event(evlog[x].wi, evlog[x].ev))
        /\ evlog[x].outcome = "evaluated"
        /\ evlog[y].wi # evlog[x].wi /\ evlog[y].outcome = "evaluated"
        /\ ~MeansTrue(Str(evlog[y].value))
        /\ evlog[z].wi = evlog[x].wi /\ evlog[z].ev = evlog[x].ev
        /\ evlog[z].outcome = "gated"
        /\ ~MeansTrue(StoreGet(store, "lock", "contact"))

\* the events after e's in e's watcher were processed for e's message
RestProcessed(e) ==
    \A ei \in (e.ev + 1)..Len(Watch(e.wi).events) :
        \E y \in 1..Len(evlog) :
            /\ evlog[y].msg = e.msg /\ evlog[y].ev = ei
            /\ (Event(e.wi, ei).dependencies = <<>> /\ Event(e.wi, ei).activeHours = <<>>)
               => /\ evlog[y].outcome \in {"absent", "evaluated"}
                  /\ evlog[y].outcome = "evaluated" =>
                        \A ci \in 1..Len(Event(e.wi, ei).conditions) :
                            \E j \in 1..Len(clog) :
                                /\ clog[j].msg = e.msg /\ clog[j].ev = ei /\ clog[j].ci = ci

\* C10: a dependency whose path is not exactly <watchId>.<subject> (a.b.c, say)
\* counts as unsatisfied: the event is gated and sends nothing, and the
\* remaining events of the same message are still processed.
C10_MalformedDependency ==
    \A x \in 1..Len(evlog) :
        (/\ evlog[x].msg # 0 /\ evlog[x].ev # 0
         /\ evlog[x].outcome \notin {"absent", "inactive"}
         /\ HasMalformedDependency(Event(evlog[x].wi, evlog[x].ev)))
        => /\ evlog[x].outcome = "gated"
           /\ ~ActedOn(evlog[x], sent, clog)
           /\ RestProcessed(evlog[x])

\* the event with the malformed path was gated and the event after it notified
\* for the same message
C10_Witness ==
    \E x \in 1..Len(evlog) :
        /\ evlog[x].msg # 0 /\ evlog[x].ev # 0
        /\ HasMalformedDependency(Event(evlog[x].wi, evlog[x].ev))
        /\ evlog[x].outcome = "gated"
        /\ \E n \in 1..Len(sent) : sent[n].msg = evlog[x].msg /\ sent[n].ev > evlog[x].ev

\* the values a stateKey or key template takes on the payloads of the configurations
SourceIds == {"a", "b", "srv:/", "web:/"}

\* the keys a bucket of the event could have: its subject, or a source and its subject
BucketKeysOf(event) ==
    {Text(event.subject)} \cup {id \o "::" \o Text(event.subject) : id \in SourceIds}

\* the dynamic events, as <<watcher, event>>
DynamicEvents ==
    {p \in Watchers(cfg) \X (1..3) :
        p[2] <= Len(Watch(p[1]).events) /\ Event(p[1], p[2]).dynamic}

\* C11: dynamic isolation: an event with dynamic = true, with or without a
\* stateKey, never has an EventStatus bucket, never writes the GlobalEventStore
\* (at startup or per message), and never has a warning or reset timer armed.
C11_DynamicIsolation ==
    \A p \in DynamicEvents :
        /\ DOMAIN eventStatus[p[1]] \cap BucketKeysOf(Event(p[1], p[2])) = {}
        /\ <<Watch(p[1]).id, Text(Event(p[1], p[2]).subject)>> \notin DOMAIN store
        /\ \A tm \in timers : ~(tm.wi = p[1] /\ tm.ev = p[2])
        /\ \A x \in 1..Len(evlog) :
              (evlog[x].wi = p[1] /\ evlog[x].ev = p[2])
              => evlog[x].outcome \notin {"warning-fired", "reset-fired"}

\* the dynamic event with a stateKey matched the same value twice, 10 s or
\* more apart, and notified both times, while the stateful event beside it got
\* its bucket, its store entry and its timers
C11_Witness ==
    \E i, j \in 1..Len(clog) :
        /\ i < j
        /\ <<clog[i].wi, clog[i].ev>> \in DynamicEvents
        /\ Event(clog[i].wi, clog[i].ev).stateKey # <<>>
        /\ CondOf(clog[i]).warningThreshold > 0 /\ CondOf(clog[i]).reset > 0
        /\ clog[i].key = clog[j].key /\ clog[i].value = clog[j].value
        /\ clog[i].notified /\ clog[j].notified
        /\ clog[j].t - clog[i].t >= 10
        /\ \E x \in 1..Len(evlog) :
              evlog[x].wi = clog[i].wi /\ evlog[x].outcome = "warning-fired"
        /\ DOMAIN eventStatus[clog[i].wi] # {}

(***************************************************************************)
(* C13.                                                                    *)
(***************************************************************************)
\* the calls of sendNotifications that message msg made for condition ci of event ei
CallsOf(msg, ei, ci) ==
    {x \in 1..Len(sent) : sent[x].msg = msg /\ sent[x].ev = ei /\ sent[x].ci = ci}

\* C13: processing one delivered message makes at most one call of
\* sendNotifications per (event, condition index), whatever the payload and the
\* rules: two calls of one message for one condition of one event are the same call
C13_OneNotificationPerCondition ==
    \A x, y \in 1..Len(sent) :
        (sent[x].msg # 0 /\ sent[x].msg = sent[y].msg
            /\ sent[x].ev = sent[y].ev /\ sent[x].ci = sent[y].ci) => x = y

\* one message notified for two conditions, once each, one of them on the legacy path
C13_Witness ==
    \E x, y \in 1..Len(sent) :
        /\ sent[x].msg # 0 /\ sent[x].msg = sent[y].msg
        /\ <<sent[x].ev, sent[x].ci>> # <<sent[y].ev, sent[y].ci>>
        /\ Cardinality(CallsOf(sent[x].msg, sent[x].ev, sent[x].ci)) = 1
        /\ Cardinality(CallsOf(sent[y].msg, sent[y].ev, sent[y].ci)) = 1
        /\ \E r \in 1..Len(clog) :
              clog[r].msg = sent[x].msg /\ clog[r].ev = sent[x].ev /\ clog[r].ci = sent[x].ci
                 /\ clog[r].route = "legacy" /\ clog[r].notified

(***************************************************************************)
(* C16.                                                                    *)
(***************************************************************************)
\* a payload JSON.parse throws on, or one that decodes to null
Unparsable(m) == ~m.ok \/ m.data = Null

\* the delivery of an unparsable payload leaves everything but the logs alone
C16_DropStep ==
    \A wi \in Watchers(cfg) : \A m \in cfg.payloads[wi] :
        (Unparsable(m) /\ OnMessage(wi, m)) =>
            UNCHANGED <<store, eventStatus, conditionState, timers, nextTimer, sent, clog>>

\* C16: a payload that is not valid JSON, or decodes to null, is dropped: the
\* step that delivers it sends no notification and leaves the Global Store, all
\* buckets, all condition states and all timers as they were, so that later
\* messages are processed from the same state
C16_MalformedDropped == [][C16_DropStep]_vars

\* a message was dropped while a bucket, a condition state and a timer existed,
\* after one notification and before another, and the timer is still pending
C16_Witness ==
    \E x \in 1..Len(evlog) :
        /\ evlog[x].outcome = "dropped"
        /\ \E a \in 1..Len(sent) : sent[a].msg # 0 /\ sent[a].msg < evlog[x].msg
        /\ \E b \in 1..Len(sent) : sent[b].msg > evlog[x].msg
        /\ \E tm \in timers : \E y \in 1..Len(clog) :
              clog[y].msg < evlog[x].msg /\ clog[y].wi = tm.wi /\ clog[y].ev = tm.ev
        /\ conditionState[evlog[x].wi] # <<>>

(***************************************************************************)
(* C17.                                                                    *)
(***************************************************************************)
\* the minute of the day at time t
MinuteAt(t) == (t % 86400) \div 60

\* the activeHours of the three events, in minutes of the day
RangesOf(ei) ==
    CASE ei = 1 -> {<<1320, 360>>}
      [] ei = 2 -> {<<480, 1020>>, <<0, 0>>}
      [] OTHER -> {}

\* the gate as the specification states it
ActiveAt(ei, m) ==
    \/ RangesOf(ei) = {}
    \/ \E r \in RangesOf(ei) :
          IF r[1] <= r[2] THEN r[1] <= m /\ m <= r[2] ELSE m >= r[1] \/ m <= r[2]

\* C17: an event with a non-empty activeHours is active at local minute m iff
\* some range has fromMin <= m <= toMin (fromMin <= toMin) or m >= fromMin or
\* m <= toMin (a range over midnight); an event without activeHours is always
\* active.  Every event of a message whose subject is present passes the gate
\* exactly when that holds
C17_ActiveHoursGate ==
    \A x \in 1..Len(evlog) :
        (evlog[x].ev # 0 /\ evlog[x].outcome # "absent") =>
            (evlog[x].outcome # "inactive" <=> ActiveAt(evlog[x].ev, MinuteAt(evlog[x].t)))

\* the night event passed the gate at 06:00 and was held back at 06:01, where
\* the event without activeHours passed
C17_Witness ==
    \E x, y, z \in 1..Len(evlog) :
        /\ evlog[x].ev = 1 /\ MinuteAt(evlog[x].t) = 360 /\ evlog[x].outcome = "evaluated"
        /\ evlog[y].ev = 1 /\ MinuteAt(evlog[y].t) = 361 /\ evlog[y].outcome = "inactive"
        /\ evlog[z].ev = 3 /\ evlog[z].msg = evlog[y].msg /\ evlog[z].outcome = "evaluated"

(***************************************************************************)
(* C12.                                                                    *)
(***************************************************************************)
\* debug(0) < info(1) < warning(2) < critical(3)
Rank(s) ==
    CASE s = "debug" -> 0
      [] s = "info" -> 1
      [] s = "warning" -> 2
      [] s = "critical" -> 3

\* the minSeverity of a configured recipient, info when it names none
MinSeverityOf(r) == IF r.minSeverity = "" THEN "info" ELSE r.minSeverity

\* the sendNotification calls that call x of sendNotifications made for recipient r
DispatchesTo(x, r) ==
    {i \in 1..Len(outbox) :
        outbox[i].call = x /\ outbox[i].method = r.type /\ outbox[i].recipient = r.recipient}

\* C12: sendNotifications with severity s delivers to a recipient with
\* minSeverity s_min (info when absent) iff rank(s) >= rank(s_min), with
\* debug(0) < info(1) < warning(2) < critical(3): every call reaches every
\* enabled recipient of its list that the ranks admit, once, and no other
C12_SeverityFilter ==
    \A x \in 1..Len(sent) : \A n \in 1..Len(cfg.notificationList) :
        \A k \in 1..Len(cfg.notificationList[n].recipients) :
            LET r == cfg.notificationList[n].recipients[k] IN
            Cardinality(DispatchesTo(x, r)) =
                IF /\ r.enabled
                   /\ cfg.notificationList[n].id = sent[x].listId
                   /\ Rank(sent[x].severity) >= Rank(MinSeverityOf(r))
                THEN 1 ELSE 0

\* a critical, a debug and a default-severity notification were sent: the
\* first reached the SMS recipient, the second only the debug log, the third
\* the recipient without a minSeverity but not the one at warning
C12_Witness ==
    \E x, y, z \in 1..Len(sent) :
        /\ sent[x].severity = "critical"
        /\ \E i \in 1..Len(outbox) : outbox[i].call = x /\ outbox[i].method = "SMS"
        /\ sent[y].severity = "debug"
        /\ {outbox[i].recipient : i \in {j \in 1..Len(outbox) : outbox[j].call = y}} = {"console"}
        /\ sent[z].severity = "info" /\ sent[z].ci = 5
        /\ {outbox[i].recipient : i \in {j \in 1..Len(outbox) : outbox[j].call = z}}
              = {"console", "team@example.org", "journal"}

(***************************************************************************)
(* C20.                                                                    *)
(***************************************************************************)
\* C20: a delivery failure (mail or SMS) for one recipient does not propagate
\* into the watcher pipeline or stop the process, and does not prevent delivery
\* to the remaining recipients of the same list or of subsequent messages:
\* with a send failed the process is running, and every call of
\* sendNotifications has reached both recipients
C20_DeliveryFailureIsolated ==
    (\E i \in 1..Len(outbox) : outbox[i].state = "failed") =>
        /\ process = "running"
        /\ \A x \in 1..Len(sent) :
              {outbox[i].method : i \in {j \in 1..Len(outbox) : outbox[j].call = x}}
                 = {"MAIL", "SMS"}

\* the sends of one call are all started before any of them settles
C20_RestOfListDispatched ==
    \A x \in 1..Len(sent) :
        {outbox[i].method : i \in {j \in 1..Len(outbox) : outbox[j].call = x}} = {"MAIL", "SMS"}

(***************************************************************************)
(* C14, C15.                                                               *)
(***************************************************************************)
\* the expressions with a missing operand, a dangling operator or unbalanced
\* parentheses
MalformedExpressions ==
    {Expr_Bang, Expr_NoOperand, Expr_Unclosed, Expr_Unopened, Expr_Leading}

\* C14: the evaluator never throws and returns a boolean for every expression
\* string; a malformed expression (missing operands, dangling operator,
\* unbalanced parentheses) evaluates to false, so that the condition does not
\* match
C14_MalformedIsFalse ==
    (tk.phase = "done" /\ tk.expr \in MalformedExpressions) => tk.result = FALSE

\* C15: expression evaluation terminates for every finite expression string:
\* every pass of the tokenizer loop consumes at least one character
C15_TokenizerStep == (tk'.phase = "tokenize" /\ tk'.iter = tk.iter + 1) => tk'.i > tk.i
C15_TokenizerProgress == [][C15_TokenizerStep]_vars

(***************************************************************************)
(* C18, C19.  The transport states of a watcher: CONNECTING while          *)
(* this.client is connecting, SUBSCRIBED while it is subscribed, BACKOFF   *)
(* while it is ended.                                                      *)
(***************************************************************************)
\* the entries a step adds to the transport history of watcher wi
Added(wi) ==
    {net'[wi].log[x] : x \in (Len(net[wi].log) + 1)..Len(net'[wi].log)}

\* a step in which the client emits "disconnect" or "error" ends the client
\* and sets a timer for 2500 ms later; a step that calls run() again does so
\* when such a timer expires, 2500 ms after it was set, and leaves the watcher
\* connecting
C18_Step ==
    \A wi \in Watchers(cfg) :
        /\ (\E e \in Added(wi) : e.kind \in {"error", "disconnect"}) =>
              /\ Client(net'[wi]) = "ended"
              /\ \E e \in Added(wi) : e.kind = "end"
              /\ net'[wi].retry \ net[wi].retry = {[due |-> TimeMs + 2500, set |-> TimeMs]}
        /\ (\E e \in Added(wi) : e.kind = "run") =>
              /\ Client(net'[wi]) = "connecting"
              /\ \E tm \in net[wi].retry \ net'[wi].retry :
                    TimeMs' = tm.due /\ tm.due = tm.set + 2500

\* a watcher in BACKOFF has its timer pending
C18_BackoffHasTimer ==
    \A wi \in Watchers(cfg) : Client(net[wi]) = "ended" => Cardinality(net[wi].retry) = 1

\* C18: transport recovery: after every disconnect or error event the client
\* is closed and after a fixed 2.5 s backoff a new connection attempt is made;
\* with the event loop running due timers, a watcher in BACKOFF always
\* eventually returns to CONNECTING, however many times it has failed
C18_TransportRecovery ==
    /\ [][C18_Step]_vars
    /\ []C18_BackoffHasTimer
    /\ (Client(net[1]) = "ended") ~> (Client(net[1]) = "connecting")

\* the watcher failed while connecting and again after subscribing, and each
\* time run() was called 2500 ms after the event
C18_Witness ==
    \E a, b, c, d \in 1..Len(net[1].log) :
        /\ a < b /\ b < c /\ c < d
        /\ net[1].log[a].kind = "error" /\ net[1].log[b].kind = "run"
        /\ net[1].log[b].t = net[1].log[a].t + 2500
        /\ net[1].log[c].kind = "disconnect" /\ net[1].log[d].kind = "run"
        /\ net[1].log[d].t = net[1].log[c].t + 2500
        /\ net[1].log[c].t > net[1].log[b].t
        /\ Client(net[1]) = "connecting"

\* the subscribe calls of a transport history
Subscribes(n) == Cardinality({x \in 1..Len(n.log) : n.log[x].kind = "subscribe"})

\* every "connect" in the history is followed at once by one subscribe of the
\* same client to the watcher's topic, and every subscribe follows a "connect"
C19_History ==
    \A wi \in Watchers(cfg) : \A x \in 1..Len(net[wi].log) :
        LET log == net[wi].log IN
        /\ log[x].kind = "connect" =>
              /\ x < Len(log) /\ log[x + 1].kind = "subscribe"
              /\ log[x + 1].client = log[x].client /\ log[x + 1].topic = Watch(wi).topic
              /\ (x + 1 < Len(log) => log[x + 2].kind # "subscribe")
        /\ log[x].kind = "subscribe" => (x > 1 /\ log[x - 1].kind = "connect")

\* a step makes one subscribe call when it takes the watcher from CONNECTING
\* to SUBSCRIBED and none otherwise
C19_Step ==
    \A wi \in Watchers(cfg) :
        Subscribes(net'[wi]) - Subscribes(net[wi]) =
            IF Client(net[wi]) = "connecting" /\ Client(net'[wi]) = "subscribed" THEN 1 ELSE 0

\* C19: subscribe is performed exactly once per CONNECTING -> SUBSCRIBED
\* transition: each connect event issues exactly one subscribe call for the
\* watcher's topic, and no subscribe happens in any other state
C19_SubscribeOnce == []C19_History /\ [][C19_Step]_vars

\* a client subscribed, and again after the library reconnected it; after an
\* error the next client subscribed too; a message was delivered
C19_Witness ==
    \E x, y, z \in 1..Len(net[1].log) :
        /\ x < y /\ y < z
        /\ net[1].log[x].kind = "subscribe" /\ net[1].log[y].kind = "subscribe"
        /\ net[1].log[z].kind = "subscribe"
        /\ net[1].log[x].client = net[1].log[y].client
        /\ net[1].log[z].client # net[1].log[y].client
        /\ nmsg > 0

(***************************************************************************)
(* C21.  Startup with a recipient whose type is no notification method.    *)
(***************************************************************************)
\* the recipients of the configuration
AllRecipients ==
    UNION {{NotificationList(cfg)[i].recipients[j] :
               j \in 1..Len(NotificationList(cfg)[i].recipients)} :
           i \in 1..Len(NotificationList(cfg))}

\* C21: an unknown type in any recipient of notificationList aborts startup:
\* no watcher is created or run when some recipient has a type other than
\* LOG, MAIL or SMS
C21_UnknownTypeAborts ==
    (\E r \in AllRecipients : r.type \notin {"LOG", "MAIL", "SMS"}) =>
        (process # "starting" => (process = "exited" /\ net = <<>>))

(***************************************************************************)
(* C23, C24.  The warning timer of a bucket and its callback.              *)
(***************************************************************************)
\* the warning timer the bucket k of watcher wi armed has run
WarningRan(wi, k) ==
    /\ k \in DOMAIN eventStatus[wi]
    /\ eventStatus[wi][k].warningTimeout # 0
    /\ \A tm \in timers : tm.id # eventStatus[wi][k].warningTimeout

\* evaluation r went the legacy way for a condition with a warningThreshold
LegacyWithThreshold(r) == r.route = "legacy" /\ CondOf(r).warningThreshold > 0

\* a warning timer of r's bucket is armed after the step
WarningArmed(r) ==
    \E tm \in timers' : tm.kind = "warning" /\ tm.wi = r.wi /\ tm.statusKey = r.statusKey

\* C23: after a warning timer has fired no warning timer counts as armed for
\* the bucket: the next matching legacy evaluation of a condition with
\* warningThreshold > 0 arms a new warning timer
C23_Step ==
    \A x \in (Len(clog) + 1)..Len(clog') :
        (LegacyWithThreshold(clog'[x]) /\ WarningRan(clog'[x].wi, clog'[x].statusKey))
        => WarningArmed(clog'[x])
C23_RearmAfterFiring == [][C23_Step]_vars

\* the step is the callback of warning timer tm
WarningFires(tm) ==
    /\ tm.kind = "warning"
    /\ Len(evlog') = Len(evlog) + 1
    /\ evlog'[Len(evlog')].outcome = "warning-fired"

\* the callback of tm sends iff the bucket it finds has warningDone false and
\* the value tm captured; it leaves warningDone true and sends tm's text
C24_Fire ==
    \A tm \in timers \ timers' :
        WarningFires(tm) =>
            /\ Len(sent') \in {Len(sent), Len(sent) + 1}
            /\ Len(sent') = Len(sent) + 1 <=>
                   (/\ ~eventStatus[tm.wi][tm.statusKey].warningDone
                    /\ eventStatus[tm.wi][tm.statusKey].lastValue = tm.warningValue)
            /\ eventStatus'[tm.wi][tm.statusKey].warningDone
            /\ Len(sent') = Len(sent) + 1 =>
                   (sent'[Len(sent')].kind = "warning" /\ sent'[Len(sent')].text = tm.text)

\* the timer an evaluation arms captures the value of its message and the
\* warningMessage interpolated against its payload
C24_Arm ==
    \A x \in (Len(clog) + 1)..Len(clog') : \A tm \in timers' :
        (tm.kind = "warning" /\ <<tm.id, "warning">> \in
                                    clog'[x].after.armed \ clog'[x].before.armed)
        => /\ tm.warningValue = clog'[x].value
           /\ tm.text = WarningText(CondOf(clog'[x]), clog'[x].data, store')

\* C24: when a warning timer fires, the warning is sent iff the bucket's
\* warningDone is false and its lastValue at fire time equals the value
\* captured at arm time; warningDone is true afterwards in both cases, and the
\* text is the warningMessage interpolated against the payload that armed the
\* timer, not a later one
C24_WarningFire == [][C24_Fire /\ C24_Arm]_vars

\* a warning armed by source a went out with a's text although a message of
\* source b had been evaluated between the arming and the firing
C24_Witness ==
    \E n \in 1..Len(sent) : \E x \in 1..Len(clog) : \E y \in 1..Len(clog) :
        /\ sent[n].kind = "warning" /\ sent[n].text = "Level 5 at a"
        /\ clog[y].after.armed # clog[y].before.armed /\ clog[y].ci = 1
        /\ clog[y].t + 10 = sent[n].t
        /\ clog[x].matched /\ Prop(clog[x].data, "id") = Str("b")
        /\ clog[x].msg > clog[y].msg /\ clog[x].t < sent[n].t

(***************************************************************************)
(* C26 - C30.  What one evaluation reads and writes.                       *)
(***************************************************************************)
\* the evaluations of the rising condition keyed by source
KeyedEvaluations == {x \in 1..Len(clog) : CondOf(clog[x]).key # <<>> /\ IsRising(clog[x])}

\* C26: edge and cooldown are tracked per source key of one condition: an
\* evaluation under condition key k (match or not) changes only the
\* ConditionState record of k, and its verdict depends on that record only, so
\* no other source key or condition index is suppressed, delayed or re-armed
C26_PerKeyState ==
    \A x \in 1..Len(clog) :
        /\ clog[x].touched \subseteq {clog[x].key}
        /\ clog[x].matched =>
              clog[x].allowed =
                    shouldNotifyByEdgeCooldown(Put(<<>>, clog[x].key, clog[x].before.state),
                                               clog[x].key, CondOf(clog[x]), clog[x].t).allow

\* source a notified, then source b notified, then source a was suppressed
C26_Witness ==
    \E x \in KeyedEvaluations : \E y \in KeyedEvaluations : \E z \in KeyedEvaluations :
        /\ x < y /\ y < z
        /\ clog[x].key = clog[z].key /\ clog[y].key # clog[x].key
        /\ clog[x].notified /\ clog[y].notified
        /\ clog[z].matched /\ ~clog[z].allowed /\ clog[z].touched = {}

\* evaluation r is of a condition with its own controls, on a stateful event
UserControlled(r) ==
    /\ CondOf(r).edge = "rising" \/ CondOf(r).cooldownSec > 0
    /\ ~Event(r.wi, r.ev).dynamic /\ r.statusKey # ""

\* C27: legacy and user-controlled suppression exclude each other: the
\* evaluation of a condition with edge rising or cooldownSec > 0 on a stateful
\* event never applies the lastValue duplicate suppression and never arms,
\* clears or re-arms the bucket's timers, nor changes warningDone or
\* lastHandledValue
C27_UserControlsFrame ==
    \A x \in 1..Len(clog) :
        UserControlled(clog[x]) =>
            /\ clog[x].after.bucket = clog[x].before.bucket
            /\ clog[x].after.armed = clog[x].before.armed
            /\ clog[x].notified <=> clog[x].allowed
            /\ clog[x].route \in {"unmatched", "suppressed", "user"}

\* a condition that declares a warning and a reset was notified by its
\* cooldown for a value the bucket already held
C27_Witness ==
    \E x \in 1..Len(clog) :
        /\ UserControlled(clog[x]) /\ clog[x].notified
        /\ CondOf(clog[x]).cooldownSec > 0
        /\ CondOf(clog[x]).warningThreshold > 0 /\ CondOf(clog[x]).reset > 0
        /\ clog[x].lastValue = clog[x].value
        /\ clog[x].before.armed # {}

\* C28: a non-matching evaluation changes nothing except, for a rising
\* condition, prevMatch = false under its condition key: lastSentAt, the
\* bucket's timers, warningDone and lastHandledValue stay and nothing is sent
C28_NonMatchFrame ==
    \A x \in 1..Len(clog) :
        ~clog[x].matched =>
            /\ clog[x].after.bucket = clog[x].before.bucket
            /\ clog[x].after.armed = clog[x].before.armed
            /\ clog[x].after.sent = clog[x].before.sent
            /\ clog[x].after.store = clog[x].before.store
            /\ clog[x].after.state.lastSentAt = clog[x].before.state.lastSentAt
            /\ clog[x].after.state.prevMatch =
                  (IF IsRising(clog[x]) THEN FALSE ELSE clog[x].before.state.prevMatch)
            /\ clog[x].touched \subseteq (IF IsRising(clog[x]) THEN {clog[x].key} ELSE {})

\* a rising condition that had matched and sent did not match, both timers of
\* its bucket being armed
C28_Witness ==
    \E x \in 1..Len(clog) :
        /\ ~clog[x].matched /\ IsRising(clog[x])
        /\ clog[x].before.state.prevMatch /\ clog[x].before.state.lastSentAt > 0
        /\ ~clog[x].after.state.prevMatch
        /\ \E w \in clog[x].before.armed : w[2] = "warning"
        /\ \E w \in clog[x].before.armed : w[2] = "reset"

\* the timers of one kind armed for bucket k of watcher wi
ArmedFor(wi, k, kind) == {tm \in timers : tm.wi = wi /\ tm.statusKey = k /\ tm.kind = kind}

\* C29: in every reachable state each bucket has at most one armed warning
\* timer and at most one armed reset timer, and it is the one the bucket holds
C29_OneTimerPerKind ==
    \A wi \in Watchers(cfg) : \A k \in DOMAIN eventStatus[wi] :
        /\ Cardinality(ArmedFor(wi, k, "warning")) <= 1
        /\ Cardinality(ArmedFor(wi, k, "reset")) <= 1
        /\ \A tm \in ArmedFor(wi, k, "warning") : tm.id = eventStatus[wi][k].warningTimeout
        /\ \A tm \in ArmedFor(wi, k, "reset") : tm.id = eventStatus[wi][k].resetTimeout

\* both timers of a bucket are armed after a timer has run and after messages
\* in which several conditions with timers matched
C29_Witness ==
    \E wi \in Watchers(cfg) : \E k \in DOMAIN eventStatus[wi] :
        /\ ArmedFor(wi, k, "warning") # {} /\ ArmedFor(wi, k, "reset") # {}
        /\ \E i \in 1..Len(evlog) : evlog[i].outcome \in {"warning-fired", "reset-fired"}
        /\ \E x \in 1..Len(clog) : \E y \in 1..Len(clog) :
              /\ clog[x].msg < clog[y].msg
              /\ clog[x].route = "legacy" /\ clog[y].route = "legacy"
              /\ clog[y].ci = 4 /\ clog[y].statusKey = k

\* the latest message evaluated for event ei of watcher wi, 0 if none
LastEvaluated(wi, ei) ==
    LET xs == {i \in 1..Len(evlog) : /\ evlog[i].outcome = "evaluated"
                                      /\ evlog[i].wi = wi /\ evlog[i].ev = ei}
    IN  IF xs = {} THEN 0 ELSE CHOOSE i \in xs : \A j \in xs : j <= i

KeyPrefix(r) ==
    Watch(r.wi).id \o "::" \o Text(Event(r.wi, r.ev).subject) \o "::" \o ToString(r.ci - 1)
        \o "::"

\* the tags of r's payload
TagHost(r) == getValueByPath(r.data, Chars_tags_host)
TagPath(r) == getValueByPath(r.data, Chars_tags_path)

\* the source key in the order stated: the key template if set, else the
\* stateKey template if set, else host:path if both tags exist, else the subject
StatedSourceKey(r) ==
    IF CondOf(r).key # <<>> THEN interpolate(CondOf(r).key, r.data, store)
    ELSE IF Event(r.wi, r.ev).stateKey # <<>>
    THEN interpolate(Event(r.wi, r.ev).stateKey, r.data, store)
    ELSE IF TagHost(r).t # "undefined" /\ TagPath(r).t # "undefined"
    THEN String(TagHost(r)) \o ":" \o String(TagPath(r))
    ELSE Text(Event(r.wi, r.ev).subject)

\* C25 as stated: the suppression source key is interpolate(condition.key) if
\* set, else interpolate(event.stateKey) if set, else "<host>:<path>" if both
\* tags exist, else event.subject, and the full key is
\* "<watcherId>::<subject>::<conditionIndex>::<sourceKey>"
C25_KeyOrder ==
    \A x \in 1..Len(clog) : clog[x].key = KeyPrefix(clog[x]) \o StatedSourceKey(clog[x])

\* the source key with a template that renders the empty string passed over,
\* and the tags taken when one of them is there, the other one being empty
RenderedSourceKey(r) ==
    IF interpolate(CondOf(r).key, r.data, store) # ""
    THEN interpolate(CondOf(r).key, r.data, store)
    ELSE IF interpolate(Event(r.wi, r.ev).stateKey, r.data, store) # ""
    THEN interpolate(Event(r.wi, r.ev).stateKey, r.data, store)
    ELSE IF ~Falsy(TagHost(r)) \/ ~Falsy(TagPath(r))
    THEN OrEmpty(TagHost(r)) \o ":" \o OrEmpty(TagPath(r))
    ELSE Text(Event(r.wi, r.ev).subject)

\* C25, amended: the source key is the first of interpolate(condition.key),
\* interpolate(event.stateKey) that is set and renders a non-empty string;
\* else "<host>:<path>" if tags.host or tags.path exists, a missing one being
\* empty; else event.subject; the full key is
\* "<watcherId>::<subject>::<conditionIndex>::<sourceKey>", the index from 0
C25_KeyOrderAmended ==
    \A x \in 1..Len(clog) : clog[x].key = KeyPrefix(clog[x]) \o RenderedSourceKey(clog[x])

\* keys from every source were computed: the key template, the stateKey (with
\* no key template, and under a key template that rendered nothing), both
\* tags, one tag, the subject
C25_Witness ==
    {"disk::level::0::srv", "disk::level::1::a", "disk::level::0::a", "disk::temp::0::srv:/",
     "disk::temp::0::srv:", "disk::temp::0:::/", "disk::temp::0::temp", "disk::level::0::level"}
        \subseteq {clog[x].key : x \in 1..Len(clog)}
(***************************************************************************)
(* Helper chains                                                           *)
(***************************************************************************)
\* the interpolation of template against payload has returned
Interpolated(template, payload) ==
    tpl.phase = "done" /\ tpl.template = template /\ tpl.payload = payload

\* C22 as stated: the helpers of a chain are applied from left to right,
\* each to the result of the one before, and the message of scenario S2,
\* against its payload, is interpolated to "ALERT / 91.2% on SRV"
C22_HelperChains ==
    /\ tpl.phase = "done" => tpl.result = interpolate(tpl.template, tpl.payload, store)
    /\ Interpolated(Template_S2, Payload_S2) => tpl.result = "ALERT / 91.2% on SRV"

\* C22, amended: the helpers of a chain are applied from left to right, each
\* to the result of the one before (round(0) then toFixed(1) gives "91.0",
\* toFixed(1) then round(0) gives "91"); pct() without an argument formats
\* its input again with no decimals, so that the message of scenario S2 is
\* interpolated to "ALERT / 91% on SRV", and pct(1) alone gives "91.2%"
C22_HelperChainsAmended ==
    /\ tpl.phase = "done" => tpl.result = interpolate(tpl.template, tpl.payload, store)
    /\ Interpolated(Template_S2, Payload_S2) => tpl.result = "ALERT / 91% on SRV"
    /\ Interpolated(Template_RoundFixed, Payload_S2) => tpl.result = "91.0"
    /\ Interpolated(Template_FixedRound, Payload_S2) => tpl.result = "91"
    /\ Interpolated(Template_Pct1, Payload_S2) => tpl.result = "at 91.2%"

\* the message of scenario S2 has been interpolated against its payload,
\* toFixed(1), pct() and upper applied in this order
C22_Witness ==
    /\ Interpolated(Template_S2, Payload_S2)
    /\ tpl.applied = <<"toFixed(1)", "pct()", "upper">>
    /\ tpl.result = "ALERT / 91% on SRV"

(***************************************************************************)
(* lastValue is assigned after the conditions                              *)
(***************************************************************************)
\* the evaluations and the gate entries the step has appended
NewEvaluations == {clog'[k] : k \in (Len(clog) + 1)..Len(clog')}
NewEvents == {evlog'[k] : k \in (Len(evlog) + 1)..Len(evlog')}

\* the lastValue of the bucket of key k of watcher wi before the step: that
\* of the record, or of the record the handler creates
LastValueBefore(wi, ei, k) ==
    IF k \in DOMAIN eventStatus[wi] THEN eventStatus[wi][k].lastValue
    ELSE String(Event(wi, ei).default)

\* C31, on one step: every evaluation of a message on a stateful event saw
\* the bucket's lastValue of before the message; a legacy evaluation
\* notified iff that differs from the current value string; and every
\* event that reached its conditions, matched or not, leaves the current
\* value string in lastValue
C31_Step ==
    /\ \A r \in NewEvaluations :
          r.statusKey # "" =>
            /\ r.lastValue = LastValueBefore(r.wi, r.ev, r.statusKey)
            /\ r.before.bucket[1].lastValue = r.lastValue
            /\ r.after.bucket[1].lastValue = r.lastValue
            /\ r.route = "legacy" => (r.notified <=> r.lastValue # r.value)
            /\ eventStatus'[r.wi][r.statusKey].lastValue = r.value
    /\ \A e \in NewEvents :
          (e.outcome = "evaluated" /\ ~Event(e.wi, e.ev).dynamic) =>
            \E k \in DOMAIN eventStatus'[e.wi] : eventStatus'[e.wi][k].lastValue = e.value

\* C31: lastValue is assigned after all conditions of the event, whether or
\* not one matched, so that every legacy condition compares against the
\* lastValue of before the message and several matching legacy conditions
\* all notify on a value change
C31_LastValueAfterConditions == [][C31_Step]_vars

\* a message changed the value and two legacy conditions both notified; a
\* later message matched no condition and its value is the bucket's lastValue
C31_Witness ==
    /\ \E x, y \in 1..Len(clog) :
          /\ clog[x].msg = clog[y].msg /\ clog[x].ci < clog[y].ci
          /\ clog[x].route = "legacy" /\ clog[y].route = "legacy"
          /\ clog[x].notified /\ clog[y].notified
          /\ clog[x].lastValue = "0" /\ clog[y].lastValue = "0" /\ clog[x].value = "5"
    /\ clog # <<>>
    /\ \A k \in 1..Len(clog) : clog[k].msg = nmsg => ~clog[k].matched
    /\ \E k \in 1..Len(clog) : clog[k].msg = nmsg /\ clog[k].value = "3"
    /\ eventStatus[1]["level"].lastValue = "3"

(***************************************************************************)
(* Buckets by stateKey                                                     *)
(***************************************************************************)
\* the bucket keys the evaluations of the step name
KeysOfStep == {r.statusKey : r \in NewEvaluations}

\* the key the bucket of evaluation r is stated to have
StatedStatusKey(r) ==
    IF Event(r.wi, r.ev).stateKey = <<>> THEN Text(Event(r.wi, r.ev).subject)
    ELSE interpolate(Event(r.wi, r.ev).stateKey, r.data, store) \o "::"
            \o Text(Event(r.wi, r.ev).subject)

\* the buckets of watcher wi that the step created or changed
ChangedBuckets(wi) ==
    {k \in DOMAIN eventStatus'[wi] :
        k \notin DOMAIN eventStatus[wi] \/ eventStatus'[wi][k] # eventStatus[wi][k]}

\* the timers the step armed, cleared or ran
ChangedTimers == (timers \ timers') \cup (timers' \ timers)

\* C32, on one step: a message's evaluations name the bucket of the stated
\* key, and the step changes buckets and timers of these keys only; a timer
\* callback changes the bucket of its own key only
C32_Step ==
    /\ \A r \in NewEvaluations :
          ~Event(r.wi, r.ev).dynamic =>
            /\ r.statusKey = StatedStatusKey(r)
            /\ r.statusKey \in DOMAIN eventStatus'[r.wi]
    /\ nmsg' # nmsg =>
          /\ \A wi \in Watchers(cfg) : ChangedBuckets(wi) \subseteq KeysOfStep
          /\ \A tm \in ChangedTimers : tm.statusKey \in KeysOfStep
    /\ nmsg' = nmsg =>
          /\ \A wi \in Watchers(cfg) : \A k \in ChangedBuckets(wi) :
                \E tm \in timers \ timers' : tm.wi = wi /\ tm.statusKey = k
          /\ timers' \subseteq timers

\* C32: a stateful bucket is keyed by the subject, or by the interpolated
\* stateKey, "::" and the subject; a message changes lastValue,
\* lastHandledValue, warningDone and timers of the buckets of its own keys
\* only, and so does a timer callback
C32_BucketsByStateKey == [][C32_Step]_vars

\* the buckets of sources a and b stand side by side: a has had its warning and holds 5, b was notified after a and holds
\* its own value, and the event without stateKey has the bucket "temp"
C32_Witness ==
    /\ {"a::level", "b::level", "temp"} \subseteq DOMAIN eventStatus[1]
    /\ eventStatus[1]["a::level"].warningDone
    /\ ~eventStatus[1]["b::level"].warningDone
    /\ eventStatus[1]["a::level"].lastValue = "5"
    /\ \E x, y \in 1..Len(clog) :
          /\ x < y
          /\ clog[x].statusKey = "a::level" /\ clog[x].matched /\ ~clog[x].notified
          /\ clog[y].statusKey = "b::level" /\ clog[y].notified
    /\ \E tm \in timers : tm.statusKey = "b::level"

(***************************************************************************)
(* Handlers and callbacks run one at a time                                *)
(***************************************************************************)
\* what run j of the handler leaves when nothing else touches the state
\* between its beginning and its return
Alone(j) == HandleMessage(j.from, j.wi, j.m, j.msg)

\* the state after the step is the one R describes for watcher wi
Leaves(wi, R) ==
    /\ store' = R.store /\ eventStatus'[wi] = R.es /\ conditionState'[wi] = R.cs
    /\ timers' = R.timers /\ nextTimer' = R.nextTimer /\ sent' = R.sent
    /\ evlog' = R.evlog /\ clog' = R.clog

\* the entries of the message history are in delivery order, and the
\* entries of one message stand together: no entry of another message or of
\* a timer callback lies between them
InDeliveryOrder ==
    \A x, y \in 1..Len(evlog) :
        (x < y /\ evlog[x].msg > 0) =>
            /\ evlog[y].msg > 0 => evlog[x].msg <= evlog[y].msg
            /\ evlog[y].msg = evlog[x].msg =>
                    \A z \in x..y : evlog[z].msg = evlog[x].msg

\* on one step: while a run of the handler has begun and not returned, the
\* step is the next pass of that run (no timer callback, no client event,
\* no other run); and the run that returns leaves the state it would have
\* left had it run in one piece from the state it began in
C33_Step ==
    /\ job # <<>> => (Len(job) = 1 /\ job' # job /\ nmsg' = nmsg /\ net' = net /\ now' = now)
    /\ \A i \in 1..Len(job) :
          (job' = Without(i) /\ job[i].ei >= Len(Watch(job[i].wi).events)) =>
              Leaves(job[i].wi, Alone(job[i]))

\* C33: a watcher handles its messages one after the other in delivery
\* order, and no warning, reset or run() timer callback runs between the
\* beginning and the return of a run of the message handler: every run is
\* atomic on buckets, condition states, timers and the store
C33_Serialized == []InDeliveryOrder /\ [][C33_Step]_vars

\* a run of the handler is between its two events while a timer of the
\* watcher is due: the callback has to wait
C33_Witness ==
    /\ job # <<>> /\ job[1].ei = 2
    /\ \E tm \in timers : tm.wi = job[1].wi /\ tm.due <= now /\ tm.kind = "warning"
    /\ \E tm \in timers : tm.wi = job[1].wi /\ tm.due <= now /\ tm.kind = "reset"

(***************************************************************************)
(* Buckets and store entries at their creation                             *)
(***************************************************************************)
\* the record a bucket of the event is stated to begin with
Fresh(event) ==
    [lastValue |-> String(event.default), lastHandledValue |-> <<>>,
     warningTimeout |-> 0, resetTimeout |-> 0, warningDone |-> FALSE]

\* the events of watcher wi that are not dynamic and have no stateKey
Plain(wi) ==
    {ei \in 1..Len(Watch(wi).events) :
        ~Event(wi, ei).dynamic /\ Event(wi, ei).stateKey = <<>>}

\* a message has reached the conditions of event ei of watcher wi
Reached(wi, ei) ==
    \E x \in 1..Len(evlog) :
        evlog[x].wi = wi /\ evlog[x].ev = ei /\ evlog[x].outcome = "evaluated"

\* once a watcher has been run (its first client exists), every enabled
\* watcher has, for each of its plain events, a defined store entry and a
\* bucket; until a message reaches the event they are the raw default and
\* the fresh record; a watcher that is not enabled has no state
C34_Seeded ==
    (process = "running" \/ net # <<>>) =>
        /\ DOMAIN eventStatus = Watchers(cfg)
        /\ \A wi \in Watchers(cfg) : \A ei \in Plain(wi) :
              /\ StoreGet(store, Watch(wi).id, Text(Event(wi, ei).subject)).t # "undefined"
              /\ Text(Event(wi, ei).subject) \in DOMAIN eventStatus[wi]
              /\ ~Reached(wi, ei) =>
                    /\ StoreGet(store, Watch(wi).id, Text(Event(wi, ei).subject))
                            = Event(wi, ei).default
                    /\ eventStatus[wi][Text(Event(wi, ei).subject)] = Fresh(Event(wi, ei))
                    /\ \A tm \in timers : tm.wi = wi => tm.ev # ei

\* a bucket the handler creates is the fresh record, with no timer armed,
\* when the first condition is evaluated
C34_Created ==
    \A r \in NewEvaluations :
        (r.statusKey # "" /\ r.statusKey \notin DOMAIN eventStatus[r.wi] /\ r.ci = 1) =>
            /\ r.before.bucket = <<Fresh(Event(r.wi, r.ev))>>
            /\ r.before.armed = {}

\* C34: every bucket begins with lastValue String(default), lastHandledValue
\* null, no timer and warningDone false; the store entry of every plain
\* event of an enabled watcher is seeded with the raw default before a
\* watcher runs and is defined ever after
C34_BucketsAndSeeds == []C34_Seeded /\ [][C34_Created]_vars

\* after startup and before any message the lock's store entry is the
\* boolean true and its bucket holds "true"; later a message has created the
\* bucket of source a, and the watcher that is not enabled has no entry
C34_Witness ==
    /\ process = "running"
    /\ StoreGet(store, "door", "contact") = Bool(TRUE)
    /\ eventStatus[3]["contact"].lastValue = "true"
    /\ StoreGet(store, "lock", "contact") = Str("false")
    /\ "a::level" \in DOMAIN eventStatus[1]
    /\ \E x \in 1..Len(clog) :
          /\ clog[x].statusKey = "a::level"
          /\ clog[x].before.bucket[1].lastValue = "0" /\ clog[x].after.bucket[1].warningTimeout # 0
    /\ StoreGet(store, "spare", "tamper") = Undef
    /\ StoreGet(store, "lock", "level").t # "undefined"

(***************************************************************************)
(* A skipped event has no effect                                           *)
(***************************************************************************)
\* the gate entries of the step for events the handler skipped
Skipped == {e \in NewEvents : e.outcome \in {"absent", "inactive", "gated"}}

\* the notifications the step sent
NewSent == {sent'[k] : k \in (Len(sent) + 1)..Len(sent')}

\* the keys of conditionState of watcher wi the step created or changed
ChangedStates(wi) ==
    {k \in DOMAIN conditionState'[wi] :
        k \notin DOMAIN conditionState[wi] \/ conditionState'[wi][k] # conditionState[wi][k]}

\* C35, on one step: for an event skipped because its subject is absent, the
\* time is outside activeHours or a dependency is unmet, no condition is
\* evaluated and nothing is sent, no timer of the event is armed, cleared or
\* run, its store entry and its bucket are as before, and every condition
\* state that changed belongs to an evaluation of another event
C35_Step ==
    \A e \in Skipped :
        /\ \A r \in NewEvaluations : r.ev # e.ev
        /\ \A n \in NewSent : n.ev # e.ev
        /\ \A tm \in ChangedTimers : tm.ev # e.ev
        /\ StoreGet(store', Watch(e.wi).id, Text(Event(e.wi, e.ev).subject))
              = StoreGet(store, Watch(e.wi).id, Text(Event(e.wi, e.ev).subject))
        /\ eventStatus'[e.wi][Text(Event(e.wi, e.ev).subject)]
              = eventStatus[e.wi][Text(Event(e.wi, e.ev).subject)]
        /\ ChangedStates(e.wi) \subseteq {r.key : r \in NewEvaluations}
        /\ ChangedBuckets(e.wi) \subseteq KeysOfStep

\* C35: an event that is skipped for a message has no effect on the store,
\* its buckets, the condition states and the timers, and sends nothing
C35_SkippedNoEffect == [][C35_Step]_vars

\* events have been skipped at each gate; the last message had "level" at 0
\* and was skipped at the dependency: the rising condition of "level" is
\* still at prevMatch true, its bucket still holds 5 and its warning timer
\* is still pending
C35_Witness ==
    /\ \E x \in 1..Len(evlog) : evlog[x].outcome = "absent"
    /\ \E x \in 1..Len(evlog) : evlog[x].outcome = "inactive" /\ evlog[x].value = "false"
    /\ \E x \in 1..Len(evlog) :
          /\ evlog[x].outcome = "gated" /\ evlog[x].msg = nmsg /\ evlog[x].ev = 2
          /\ evlog[x].value = "0"
    /\ \E k \in DOMAIN conditionState[1] :
          /\ conditionState[1][k].prevMatch
          /\ \E y \in 1..Len(clog) : clog[y].key = k /\ clog[y].ev = 2 /\ clog[y].ci = 1
    /\ \E tm \in timers : tm.ev = 2
    /\ eventStatus[1]["level"].lastValue = "5"

(***************************************************************************)
(* One client per watcher                                                  *)
(***************************************************************************)
\* the clients of a watcher that client.end() has not been called on: each
\* of them connects, subscribes and hands the messages of the topic to the
\* handler
Live(n) == {i \in 1..Len(n.clients) : n.clients[i] # "ended"}

SentBefore(j) == {i \in 1..(j - 1) : clog[i].key = clog[j].key /\ clog[i].allowed}

\* evaluation j is a rising edge: a match whose key was last evaluated as a non-match
RisingEdge(j) == clog[j].matched /\ \E i \in 1..(j - 1) : Consecutive(i, j) /\ ~clog[i].matched

\* evaluation j is less than the cooldown after a notification for its key
InsideCooldown(j) ==
    \E i \in SentBefore(j) : clog[j].t - clog[i].t < CondOf(clog[j]).cooldownSec

\* C37: under a rising condition with cooldownSec > 0, a rising edge inside
\* the cooldown sends nothing and leaves prevMatch true; a match that follows
\* a match for the same key sends nothing, however long after the last
\* notification; and every notification that is not the first evaluation of
\* its key follows a non-match and is at least cooldownSec after each
\* earlier notification for the key.
C37_EdgeInsideCooldown ==
    \A j \in 1..Len(clog) :
        (IsRising(clog[j]) /\ CondOf(clog[j]).cooldownSec > 0 /\ clog[j].matched) =>
            /\ clog[j].after.state.prevMatch
            /\ (RisingEdge(j) /\ InsideCooldown(j)) =>
                    /\ ~clog[j].allowed /\ ~clog[j].notified
                    /\ clog[j].after.state.lastSentAt = clog[j].before.state.lastSentAt
            /\ \A i \in 1..(j - 1) :
                    (Consecutive(i, j) /\ clog[i].matched) => ~clog[j].notified
            /\ clog[j].notified =>
                    /\ FirstForKey(j) \/ RisingEdge(j)
                    /\ \A i \in SentBefore(j) :
                          clog[j].t - clog[i].t >= CondOf(clog[j]).cooldownSec

\* for one key: a notification, a non-match, a match 60 s after the
\* notification that is held back, and a match 1900 s after the notification,
\* past the cooldown, that is held back as well
C37_Witness ==
    \E i, n, j, k \in 1..Len(clog) :
        /\ IsRising(clog[i]) /\ CondOf(clog[i]).cooldownSec = 1800
        /\ Consecutive(i, n) /\ Consecutive(n, j) /\ Consecutive(j, k)
        /\ clog[i].notified /\ ~clog[n].matched
        /\ clog[j].matched /\ ~clog[j].notified /\ clog[j].t - clog[i].t = 60
        /\ clog[k].matched /\ ~clog[k].notified /\ clog[k].t - clog[i].t = 1900
        /\ clog[k].before.state.prevMatch

(***************************************************************************)
(* The first match of a key                                                *)
(***************************************************************************)
\* this.conditionState held no record under the key of evaluation j when j
\* was made: no evaluation before it wrote one (records are never deleted)
NoRecordBefore(j) == \A i \in 1..(j - 1) : clog[j].key \notin clog[i].touched

\* C38: a matching evaluation made while conditionState has no record under
\* its key, at an epoch time of at least cooldownSec, passes the edge and
\* cooldown gate whatever the edge and the cooldown of its condition are: it
\* leaves the record {prevMatch: true, lastSentAt: now}, and it notifies
\* unless the condition is on the route that compares lastValue.
C38_FirstMatchPasses ==
    \A j \in 1..Len(clog) :
        (/\ clog[j].matched
         /\ NoRecordBefore(j)
         /\ clog[j].t >= CondOf(clog[j]).cooldownSec)
        => /\ clog[j].before.state = [prevMatch |-> FALSE, lastSentAt |-> 0]
           /\ clog[j].allowed
           /\ clog[j].after.state = [prevMatch |-> TRUE, lastSentAt |-> clog[j].t]
           /\ clog[j].key \in clog[j].touched
           /\ (Event(clog[j].wi, clog[j].ev).dynamic \/ UserControls(CondOf(clog[j])))
                  => clog[j].notified

\* first matches that passed under a rising condition with a cooldown and,
\* after a non-match that left no record, under a level condition with one
C38_Witness ==
    \E i, j, k \in 1..Len(clog) :
        /\ IsRising(clog[k]) /\ CondOf(clog[k]).cooldownSec = 1800
        /\ clog[k].matched /\ NoRecordBefore(k) /\ clog[k].notified
        /\ IsLevel(clog[j]) /\ CondOf(clog[j]).cooldownSec = 120
        /\ Consecutive(i, j) /\ ~clog[i].matched
        /\ clog[j].matched /\ NoRecordBefore(j) /\ clog[j].notified

(***************************************************************************)
(* The runtime state across reconnects                                     *)
(***************************************************************************)
\* the step is one of the transport: an event of a client or a run() timer
TransportStep == net' # net

\* a step of the transport leaves the buckets, the timers, the condition
\* states, the store and the notifications as they are
C39_Step ==
    TransportStep =>
        UNCHANGED <<store, eventStatus, conditionState, timers, nextTimer, sent, outbox>>

\* an evaluation reads the condition state the evaluation before it under
\* the same key left, whatever happened to the transport in between
C39_Carried ==
    \A i, j \in 1..Len(clog) :
        Consecutive(i, j) => clog[j].before.state = clog[i].after.state

\* the time of an evaluation or a timer callback, in milliseconds since the start
SinceStart(t) == (t - cfg.epoch) * 1000

\* C39: the "disconnect" handler, the run() timer and the "connect" handler
\* leave eventStatus, the armed timers, conditionState and
\* the Global Store unchanged, and every evaluation starts from the condition
\* state its predecessor left, so that suppression and timers go on across a
\* reconnect.
C39_ReconnectKeepsState == []C39_Carried /\ [][C39_Step]_vars

\* a message notified under both conditions and armed the warning timer; the
\* client was ended after a "disconnect"; the warning ran while no client was
\* connected; after run() and "connect" the same value came again and was
\* held back by the rising condition (prevMatch kept) and by the lastValue
\* comparison (bucket kept)
C39_Witness ==
    /\ cfg.name = "link"
    /\ Len(net[1].clients) >= 2 /\ Client(net[1]) = "subscribed"
    /\ \E x \in 1..Len(net[1].log) : \E i, j, l \in 1..Len(clog) : \E z \in 1..Len(evlog) :
          /\ net[1].log[x].kind = "disconnect"
          /\ IsRising(clog[i]) /\ Consecutive(i, j)
          /\ clog[i].notified /\ clog[j].matched /\ ~clog[j].allowed
          /\ SinceStart(clog[i].t) <= net[1].log[x].t
          /\ net[1].log[x].t < SinceStart(clog[j].t)
          /\ evlog[z].outcome = "warning-fired"
          /\ net[1].log[x].t < SinceStart(evlog[z].t)
          /\ evlog[z].t <= clog[j].t
          /\ clog[l].msg = clog[j].msg /\ clog[l].ci = 1
          /\ clog[l].matched /\ ~clog[l].notified
          /\ clog[l].lastValue = clog[l].value

====
